---------------------------- MODULE Spec2Model ----------------------------
(***************************************************************************)
(* Model of the PSD procedural logic engine.                               *)
(*                                                                         *)
(* Part 1: the reconciliation store (src/store/ProceduralContext.tsx).     *)
(* Part 2: one instance of the Remapper node and its draft requests        *)
(*         (src/components/RemapperNode.tsx).                              *)
(* Part 3: the six registries of the store and unregisterNode.             *)
(* Part 4: the container resolver, resolveLayer.                           *)
(* Part 5: the container extractor, extractTemplateMetadata.               *)
(* Part 6: the layer transform of the Remapper, transformLayers.           *)
(* Part 7: the path ids, getCleanLayerTree and findLayerByPath.            *)
(* Part 8: the Export node (src/components/ExportPSDNode.tsx).             *)
(* Part 9: the loader node (src/components/LoadPSDNode.tsx).               *)
(* Part 10: the project controls (src/components/ProjectControls.tsx).     *)
(* Part 11: the analyses, the draft debounce and the store effect of the   *)
(*          Design Analyst (src/components/DesignAnalystNode.tsx).         *)
(* Part 12: the graph editor, onConnect (src/unnamed/part_004).            *)
(* Part 13: the Container Resolver node (src/unnamed/part_003).            *)
(*                                                                         *)
(* A payload is a function from the names of its DEFINED properties to     *)
(* their values: a property that holds undefined and a property that is    *)
(* absent read the same through property access and serialise the same     *)
(* through JSON.stringify, so payloads are kept with those keys dropped.   *)
(* An optional value is a set: {} for undefined, {v} for v.                *)
(***************************************************************************)
EXTENDS Integers, Sequences, FiniteSets, TLC

VARIABLES
    psdRegistry,        \* NodeID -> parsed document
    templateRegistry,   \* NodeID -> template metadata
    resolvedRegistry,   \* NodeID -> HandleID -> mapping context
    payloadRegistry,    \* NodeID -> HandleID -> transformed payload
    analysisRegistry,   \* NodeID -> HandleID -> layout strategy
    knowledgeRegistry,  \* NodeID -> knowledge context
    globalVersion,      \* counter bumped by unregisterNode / triggerGlobalRefresh
    last,               \* the observed store call: its arguments, the registry
                        \* before it and the rule that decided it
    \* the Remapper node, instance 0
    mounted,                  \* the component is mounted
    connected,                \* source and target of the instance are resolved
    aiStrategy,               \* sourceData.aiStrategy
    globalGenerationAllowed,  \* data.remapperConfig.generationAllowed
    localAllowed,             \* data.instanceSettings[0].generationAllowed
    renderedGlobalAllowed,    \* globalGenerationAllowed when the effects last ran
    apiKey,                   \* process.env.API_KEY is set
    confirmations,            \* confirmations[0], "" for undefined
    isGeneratingPreview,      \* isGeneratingPreview[0]
    lastPromptsRef,           \* lastPromptsRef.current[0], "" for undefined
    inflight,                 \* draft requests awaiting generateContent
    dispatched,               \* number of requests sent to the API so far
    landed,                   \* the request whose asset was submitted last
    finished,                 \* how the request that finished last ended
    confirmedUrl,             \* the URL passed to the last call of
                              \* handleConfirmGeneration, {} before
    now,                      \* Date.now()
    \* the container resolver (usePsdResolver)
    templateName,             \* resolveLayer's templateName, a sequence of characters
    designTree,               \* resolveLayer's designTree, {} for null
    resolverResult,           \* the ResolverResult returned, {} before the call
    \* the container extractor (extractTemplateMetadata)
    parsedPsd,                \* the parsed document, {} before a file is read
    templateMetadata,         \* the TemplateMetadata returned, {} before the call
    designLayers,             \* the tree getCleanLayerTree returned, {} before
    \* the transform of the Remapper (transformLayers)
    transformInput,           \* source and target rectangle, strategy, layers,
                              \* name and confirmed prompt; {} if none
    transformedLayers,        \* the TransformedLayer[] returned, {} before the call
    instancePayload,          \* the payload the instances memo computes, {} before
    \* the Export node (ExportPSDNode)
    exportEdges,              \* the edges of the graph, in order
    isExporting,              \* isExporting
    exportError,              \* exportError, {} for null
    exportClosure,            \* containers and slotConnections of the render
                              \* handleExport was called in, {} when none runs
    generationTasks,          \* the generation tasks of the running export
    generatedAssets,          \* the Map generatedAssets: layer id -> canvas
    newPsd,                   \* the document handed to writePsdFile, {} before
    \* the loader node (LoadPSDNode)
    loaderPending,            \* the calls of handleFileChange awaiting parsePsdFile
    parseCalls,               \* number of parsePsdFile calls so far
    parseResult,              \* how the parsePsdFile promise that settled last
                              \* ended, {} before
    isLoading,                \* isLoading
    localError,               \* localError, {} for null
    loaderData,               \* data of the node: fileName, template,
                              \* designLayers and error ({} for null)
    \* the project controls (ProjectControls)
    liveNodes,                \* the nodes of the React Flow instance
    liveEdges,                \* its edges
    liveViewport,             \* its viewport
    projectPending,           \* the project files a FileReader is reading
    projectLoads,             \* number of files chosen so far
    projectRead,              \* the read whose onload callback ran last, {} before
    projectAlert,             \* the text of the last alert, {} if none
    \* the Design Analyst node (DesignAnalystNode)
    analystClock,             \* the time, in ms
    analyses,                 \* the calls of performAnalysis awaiting the model
    analysesStarted,          \* number of performAnalysis calls so far
    analyzingInstances,       \* analyzingInstances
    layoutStrategy,           \* analystInstances[index].layoutStrategy, {} if none
    chatExplicit,             \* analystInstances[index].chatHistory holds a user
                              \* message asking to generate or recreate
    draftTimeoutRef,          \* draftTimeoutRef.current, {} for null
    armedTimers,              \* the timers of setTimeout that are armed
    draftTriggers,            \* the draft triggers so far: time and instance
    draftCalls,               \* the generateDraft calls so far: trigger and time
    draftsPending,            \* the generateDraft calls awaiting the model
    \* the graph editor (App)
    appEdges,                 \* the edges of useEdgesState, in order
    connectCall,              \* the last call of onConnect: its connection, the
                              \* edges before it and whether the node-type
                              \* rules rejected it; {} before
    \* the Container Resolver node (ContainerResolverNode)
    channelEdges,             \* per channel the sourceHandle of the edge into
                              \* target-<index>, {} without an edge
    globalTemplate,           \* loadPsdNode.data.template, {} for null
    sourceLayers,             \* loadPsdNode.data.designLayers, {} for null
    renderedChannels          \* the channels the register effect last ran with,
                              \* {} before its first run

storeVars == <<psdRegistry, templateRegistry, resolvedRegistry, payloadRegistry,
               analysisRegistry, knowledgeRegistry, globalVersion>>

nodeDataVars == <<connected, aiStrategy, globalGenerationAllowed, localAllowed>>

componentVars == <<mounted, renderedGlobalAllowed, apiKey, confirmations,
                   isGeneratingPreview, lastPromptsRef>>

requestVars == <<inflight, dispatched, landed, finished, confirmedUrl, now>>

remapperVars == <<nodeDataVars, componentVars, requestVars>>

resolverVars == <<templateName, designTree, resolverResult>>

extractorVars == <<parsedPsd, templateMetadata, designLayers>>

transformVars == <<transformInput, transformedLayers, instancePayload>>

exportVars == <<exportEdges, isExporting, exportError, exportClosure,
                generationTasks, generatedAssets, newPsd>>

loaderVars == <<loaderPending, parseCalls, parseResult, isLoading, localError,
                loaderData>>

projectVars == <<liveNodes, liveEdges, liveViewport, projectPending, projectLoads,
                 projectRead, projectAlert>>

analystVars == <<analystClock, analyses, analysesStarted, analyzingInstances,
                 layoutStrategy, chatExplicit, draftTimeoutRef, armedTimers, draftTriggers,
                 draftCalls, draftsPending>>

editorVars == <<appEdges, connectCall>>

channelVars == <<channelEdges, globalTemplate, sourceLayers, renderedChannels>>

nodeVars == <<exportVars, loaderVars, projectVars, analystVars, editorVars,
              channelVars>>

\* what the loader node leaves alone
loaderRest == <<resolvedRegistry, payloadRegistry, analysisRegistry, knowledgeRegistry,
                last, remapperVars, resolverVars, extractorVars, transformVars,
                exportVars, projectVars, analystVars, editorVars, channelVars>>

\* what the Export node leaves alone
exportRest == <<storeVars, last, remapperVars, resolverVars, extractorVars,
                transformVars, loaderVars, projectVars, analystVars, editorVars,
                channelVars>>

\* what the project controls leave alone
projectRest == <<storeVars, last, remapperVars, resolverVars, extractorVars,
                 transformVars, exportVars, loaderVars, analystVars, editorVars,
                 channelVars>>

\* what the Design Analyst leaves alone
analystRest == <<psdRegistry, payloadRegistry, analysisRegistry,
                 knowledgeRegistry, globalVersion, last, remapperVars, resolverVars,
                 extractorVars, transformVars, exportVars, loaderVars, projectVars,
                 editorVars, channelVars>>

\* what the graph editor leaves alone
editorRest == <<storeVars, last, remapperVars, resolverVars, extractorVars,
                transformVars, exportVars, loaderVars, projectVars, analystVars,
                channelVars>>

\* what the Container Resolver node leaves alone
channelRest == <<psdRegistry, templateRegistry, payloadRegistry, analysisRegistry,
                 knowledgeRegistry, globalVersion, last, remapperVars, resolverVars,
                 extractorVars, transformVars, exportVars, loaderVars, projectVars,
                 analystVars, editorVars>>

pureVars == <<resolverVars, extractorVars, transformVars, nodeVars>>

vars == <<storeVars, last, remapperVars, pureVars>>

-----------------------------------------------------------------------------
(* Bounds *)

\* largest generationId (Date.now() token) a candidate may carry
MaxGen == 2

\* number of unregisterNode calls explored
MaxVersion == 2

\* number of draft requests sent to the API
MaxRequests == 2

\* largest value of Date.now()
MaxNow == 2

Nodes == {"remapper"}
Handles == {"result-out-0"}

-----------------------------------------------------------------------------
(* Optional values and object spread *)

Has(p, k) == k \in DOMAIN p

\* p.k, as an optional value
Opt(p, k) == IF Has(p, k) THEN {p[k]} ELSE {}

\* currentPayload?.k, currentPayload itself being optional
OptCur(cur, k) == IF cur = {} THEN {} ELSE Opt(CHOOSE c \in cur : TRUE, k)

Val(o) == CHOOSE v \in o : TRUE

\* { ...p } without the keys in ks (keys a patch sets to undefined); p is
\* read once
Drop(p, ks) == CHOOSE r \in {[f \in DOMAIN q \ ks |-> q[f]] : q \in {p}} : TRUE

\* { ...p, k: o }
Set(p, k, o) == IF o = {} THEN Drop(p, {k}) ELSE (k :> Val(o)) @@ p

\* { ...p, ...q } for a q whose keys are all defined
Spread(p, q) == q @@ p

\* JavaScript truthiness, per type of the property
TruthyBool(o) == o = {TRUE}
TruthyNum(o) == o \notin {{}, {0}}
TruthyStr(o) == o \notin {{}, {""}}

\* a || b
OrNum(a, b) == IF TruthyNum(a) THEN a ELSE b
OrStr(a, b) == IF TruthyStr(a) THEN a ELSE b
OrObj(a, b) == IF a # {} THEN a ELSE b

\* a ?? b
Coalesce(a, b) == IF a # {} THEN a ELSE b

-----------------------------------------------------------------------------
(* Layers *)

Leaf(id) == [id |-> id, type |-> "layer", children |-> <<>>]
GenLayer(id) == [id |-> id, type |-> "generative", children |-> <<>>]
Group(id, kids) == [id |-> id, type |-> "group", children |-> kids]

\* layers.filter(l => l.type !== 'generative'): the top-level array only
FilterGenerative(layers) == SelectSeq(layers, LAMBDA l : l.type # "generative")

\* a generative-kind layer anywhere in a tree of depth two
HasGenerativeDeep(layers) ==
    \E i \in DOMAIN layers :
        \/ layers[i].type = "generative"
        \/ \E j \in DOMAIN layers[i].children :
              layers[i].children[j].type = "generative"

HasGenerativeTop(layers) == \E i \in DOMAIN layers : layers[i].type = "generative"

-----------------------------------------------------------------------------
(* reconcileTerminalState *)

GateClosed(incoming) == Opt(incoming, "generationAllowed") = {FALSE}

\* the comparison of the stale guard turned around
IsStaleReversed(incoming, cur) ==
    /\ TruthyNum(OptCur(cur, "generationId"))
    /\ TruthyNum(Opt(incoming, "generationId"))
    /\ incoming.generationId > Val(OptCur(cur, "generationId"))

IsStale(incoming, cur) ==
    /\ TruthyNum(OptCur(cur, "generationId"))
    /\ TruthyNum(Opt(incoming, "generationId"))
    /\ incoming.generationId < Val(OptCur(cur, "generationId"))

IsIdle(incoming) == Opt(incoming, "status") = {"idle"}

IsFlush(incoming) == TruthyBool(Opt(incoming, "isSynthesizing"))

IsPreserve(incoming, cur) ==
    /\ ~TruthyNum(Opt(incoming, "generationId"))
    /\ TruthyNum(OptCur(cur, "generationId"))

\* incomingPayload.layers.filter(...) on a candidate without layers throws
GateThrows(incoming) == GateClosed(incoming) /\ ~Has(incoming, "layers")

\* which rule of the merge decides the candidate
ReconcileRule(incoming, cur) ==
    IF GateThrows(incoming) THEN "throw"
    ELSE IF GateClosed(incoming) THEN "gate"
    ELSE IF IsStale(incoming, cur) THEN "stale"
    ELSE IF IsIdle(incoming) THEN "idle"
    ELSE IF IsFlush(incoming) THEN "flush"
    ELSE IF IsPreserve(incoming, cur) THEN "preserve"
    ELSE "final"

\* the gate without the layer filter
GateResultKeepsLayers(incoming) ==
    LET a == Set(incoming, "previewUrl", {})
        b == Set(a, "isConfirmed", {FALSE})
        c == Set(b, "isTransient", {FALSE})
        d == Set(c, "isSynthesizing", {FALSE})
        e == Set(d, "requiresGeneration", {FALSE})
    IN  Set(e, "metrics", Opt(incoming, "metrics"))

GateResult(incoming) ==
    LET a == Set(incoming, "previewUrl", {})
        b == Set(a, "isConfirmed", {FALSE})
        c == Set(b, "isTransient", {FALSE})
        d == Set(c, "isSynthesizing", {FALSE})
        e == Set(d, "requiresGeneration", {FALSE})
        f == Set(e, "metrics", Opt(incoming, "metrics"))
    IN  Set(f, "layers", {FilterGenerative(incoming.layers)})

\* the idle reset that keeps the confirmation flags of the candidate
IdleResultKeepsFlags(incoming) == Set(incoming, "previewUrl", {})

IdleResult(incoming) ==
    LET a == Set(incoming, "previewUrl", {})
        b == Set(a, "isConfirmed", {FALSE})
        c == Set(b, "isTransient", {FALSE})
    IN  Set(c, "isSynthesizing", {FALSE})

\* the flush spread over the candidate instead of the current payload
FlushResultOverIncoming(incoming, cur) ==
    LET a == Set(incoming, "isSynthesizing", {TRUE})
        b == Set(a, "previewUrl", OptCur(cur, "previewUrl"))
        c == Set(b, "sourceReference",
                 OrStr(Opt(incoming, "sourceReference"), OptCur(cur, "sourceReference")))
        d == Set(c, "targetContainer",
                 OrStr(OrStr(Opt(incoming, "targetContainer"),
                             OptCur(cur, "targetContainer")), {""}))
        e == Set(d, "metrics", OrObj(Opt(incoming, "metrics"), OptCur(cur, "metrics")))
        f == Set(e, "generationId", OptCur(cur, "generationId"))
    IN  Set(f, "generationAllowed", {TRUE})

FlushResult(incoming, cur) ==
    LET base == IF cur # {} THEN Val(cur) ELSE incoming
        a == Set(base, "isSynthesizing", {TRUE})
        b == Set(a, "previewUrl", OptCur(cur, "previewUrl"))
        c == Set(b, "sourceReference",
                 OrStr(Opt(incoming, "sourceReference"), OptCur(cur, "sourceReference")))
        d == Set(c, "targetContainer",
                 OrStr(OrStr(Opt(incoming, "targetContainer"),
                             OptCur(cur, "targetContainer")), {""}))
        e == Set(d, "metrics", OrObj(Opt(incoming, "metrics"), OptCur(cur, "metrics")))
        f == Set(e, "generationId", OptCur(cur, "generationId"))
    IN  Set(f, "generationAllowed", {TRUE})

\* geometric preservation that takes the generationId of the candidate
PreserveResultLosesGeneration(incoming, cur) ==
    LET a == Set(incoming, "previewUrl", OptCur(cur, "previewUrl"))
        c == Set(a, "isSynthesizing", OptCur(cur, "isSynthesizing"))
        d == Set(c, "isConfirmed", OptCur(cur, "isConfirmed"))
        e == Set(d, "isTransient", OptCur(cur, "isTransient"))
        f == Set(e, "sourceReference",
                 OrStr(OptCur(cur, "sourceReference"), Opt(incoming, "sourceReference")))
    IN  Set(f, "generationAllowed", {TRUE})

\* geometric preservation that forgets the confirmation flags
PreserveResultDropsFlags(incoming, cur) ==
    LET a == Set(incoming, "previewUrl", OptCur(cur, "previewUrl"))
        b == Set(a, "generationId", OptCur(cur, "generationId"))
        c == Set(b, "isSynthesizing", OptCur(cur, "isSynthesizing"))
        f == Set(c, "sourceReference",
                 OrStr(OptCur(cur, "sourceReference"), Opt(incoming, "sourceReference")))
    IN  Set(f, "generationAllowed", {TRUE})

PreserveResult(incoming, cur) ==
    LET a == Set(incoming, "previewUrl", OptCur(cur, "previewUrl"))
        b == Set(a, "generationId", OptCur(cur, "generationId"))
        c == Set(b, "isSynthesizing", OptCur(cur, "isSynthesizing"))
        d == Set(c, "isConfirmed", OptCur(cur, "isConfirmed"))
        e == Set(d, "isTransient", OptCur(cur, "isTransient"))
        f == Set(e, "sourceReference",
                 OrStr(OptCur(cur, "sourceReference"), Opt(incoming, "sourceReference")))
    IN  Set(f, "generationAllowed", {TRUE})

\* let isConfirmed = incoming.isConfirmed ?? current?.isConfirmed ?? false;
\* if (incoming.isTransient) isConfirmed = false;
ConfirmedGuard(incoming, cur) ==
    IF TruthyBool(Opt(incoming, "isTransient")) THEN {FALSE}
    ELSE Coalesce(Coalesce(Opt(incoming, "isConfirmed"), OptCur(cur, "isConfirmed")),
                  {FALSE})

\* the final construction without the transient override of isConfirmed
FinalResultConfirmsTransient(incoming, cur) ==
    LET a == Set(incoming, "isConfirmed",
                 Coalesce(Coalesce(Opt(incoming, "isConfirmed"),
                                   OptCur(cur, "isConfirmed")), {FALSE}))
        b == Set(a, "sourceReference",
                 OrStr(Opt(incoming, "sourceReference"), OptCur(cur, "sourceReference")))
        c == Set(b, "generationId",
                 OrNum(Opt(incoming, "generationId"), OptCur(cur, "generationId")))
    IN  Set(c, "generationAllowed", {TRUE})

FinalResult(incoming, cur) ==
    LET a == Set(incoming, "isConfirmed", ConfirmedGuard(incoming, cur))
        b == Set(a, "sourceReference",
                 OrStr(Opt(incoming, "sourceReference"), OptCur(cur, "sourceReference")))
        c == Set(b, "generationId",
                 OrNum(Opt(incoming, "generationId"), OptCur(cur, "generationId")))
    IN  Set(c, "generationAllowed", {TRUE})

\* defined whenever ReconcileRule is not "throw"
reconcileTerminalState(incoming, cur) ==
    IF GateClosed(incoming) THEN GateResult(incoming)
    ELSE IF IsStale(incoming, cur) THEN Val(cur)
    ELSE IF IsIdle(incoming) THEN IdleResult(incoming)
    ELSE IF IsFlush(incoming) THEN FlushResult(incoming, cur)
    ELSE IF IsPreserve(incoming, cur) THEN PreserveResult(incoming, cur)
    ELSE FinalResult(incoming, cur)

-----------------------------------------------------------------------------
(* Registry access *)

\* prev[nodeId] || {}
NodeRecord(reg, n) == IF n \in DOMAIN reg THEN reg[n] ELSE <<>>

\* (prev[nodeId] || {})[handleId], optional
Stored(reg, n, h) == Opt(NodeRecord(reg, n), h)

\* { ...prev, [nodeId]: { ...nodeRecord, [handleId]: v } }
WithEntry(reg, n, h, v) ==
    [m \in DOMAIN reg \cup {n} |->
        IF m = n THEN Set(NodeRecord(reg, n), h, {v}) ELSE reg[m]]

\* const { [nodeId]: _, ...rest } = prev
Without(reg, n) == [m \in DOMAIN reg \ {n} |-> reg[m]]

\* JSON.stringify(a) === JSON.stringify(b): undefined-valued keys are not
\* serialised, which is the form payloads are kept in
DeepEqual(a, b) == a = b

-----------------------------------------------------------------------------
(* Inputs of the store calls *)

Metrics(sw, tw) == [source |-> [w |-> sw, h |-> sw], target |-> [w |-> tw, h |-> tw]]

\* purely geometric payload, no asset
Content1 ==
    [sourceNodeId |-> "psd", sourceContainer |-> "SRC", targetContainer |-> "T1",
     layers |-> <<Leaf("0.0")>>, scaleFactor |-> 1, metrics |-> Metrics(1, 1),
     requiresGeneration |-> FALSE]

\* payload with a generative layer on top and one nested in a group, and an asset
Content2 ==
    [sourceNodeId |-> "psd", sourceContainer |-> "SRC", targetContainer |-> "T2",
     layers |-> <<GenLayer("gen-layer-SRC"),
                  Group("0.1", <<GenLayer("gen-nested"), Leaf("0.1.0")>>)>>,
     scaleFactor |-> 2, metrics |-> Metrics(1, 2),
     requiresGeneration |-> TRUE, previewUrl |-> "u1", sourceReference |-> "r1"]

Contents == {Content1, Content2}

\* an optional property: absent, or one of vals
OptField(k, vals) == {<<>>} \cup {(k :> v) : v \in vals}

GenIds == 0 .. MaxGen

\* isConfirmed / isTransient / isSynthesizing all absent, or all true
NoFlags == <<>>
AllFlags == [isConfirmed |-> TRUE, isTransient |-> TRUE, isSynthesizing |-> TRUE]

\* candidates with the gate closed
GateCandidates ==
    { c @@ ("status" :> st) @@ ("generationAllowed" :> FALSE) @@ gi @@ fl :
        c \in Contents, st \in {"success", "idle"},
        gi \in OptField("generationId", {1}), fl \in {NoFlags, AllFlags} }

\* idle candidates
IdleCandidates ==
    { c @@ ("status" :> "idle") @@ ("generationAllowed" :> TRUE) @@ gi @@ fl :
        c \in Contents, gi \in OptField("generationId", {1}),
        fl \in {NoFlags, AllFlags} }

\* candidates that signal the start of a synthesis
FlushCandidates ==
    { c @@ [status |-> "success", isSynthesizing |-> TRUE, generationAllowed |-> TRUE]
        @@ gi @@ fl :
        c \in Contents, gi \in OptField("generationId", {1}),
        fl \in {<<>>, ("isConfirmed" :> TRUE),
                [isConfirmed |-> TRUE, isTransient |-> TRUE]} }

\* every other candidate
PlainCandidates ==
    { c @@ ("status" :> "success") @@ ("generationAllowed" :> TRUE) @@ gi @@ cf @@ tr :
        c \in Contents, gi \in OptField("generationId", GenIds),
        cf \in OptField("isConfirmed", BOOLEAN),
        tr \in OptField("isTransient", {TRUE}) }

\* the TransformedPayload values handed to registerPayload
Candidates == GateCandidates \cup IdleCandidates \cup FlushCandidates \cup PlainCandidates

\* masterOverride?: boolean
Overrides == {"true", "false"}

\* registerPayload's (payload, masterOverride): the Remapper passes its
\* master gate, open with any payload or closed
RegisterInputs ==
    (Candidates \X {"true"}) \cup ((FlushCandidates \cup IdleCandidates) \X {"false"})

\* the url handed to updatePreview and carried by the asset patches
Urls == {"u2"}

\* a Partial<TransformedPayload>: the keys it defines and the keys it sets
\* to undefined
Patch(set, clear) == [set |-> set, clear |-> clear]

\* the patches the Remapper submits (RemapperNode.tsx 698, 999, 1010, 1024,
\* 1062, 1072) and single-property patches
Partials ==
    {Patch(("isSynthesizing" :> b), {}) : b \in BOOLEAN}
    \cup {Patch([previewUrl |-> u, isTransient |-> TRUE, isSynthesizing |-> FALSE,
                 generationId |-> g], {}) : u \in Urls, g \in GenIds \ {0}}
    \cup {Patch([previewUrl |-> "u2", isConfirmed |-> TRUE, isTransient |-> FALSE,
                 sourceReference |-> "u2", generationId |-> g], {}) :
             g \in GenIds \ {0}}
    \cup {Patch([isConfirmed |-> FALSE, isTransient |-> FALSE], {"previewUrl"})}
    \cup {Patch(("isConfirmed" :> b), {}) : b \in BOOLEAN}
    \cup {Patch(("isTransient" :> TRUE), {})}
    \cup {Patch(("generationAllowed" :> b), {}) : b \in BOOLEAN}
    \cup {Patch(("status" :> "idle"), {})}
    \cup {Patch(<<>>, {"generationId"})}
    \cup {Patch([sourceContainer |-> "SRC", isSynthesizing |-> TRUE,
                 isConfirmed |-> TRUE, isTransient |-> TRUE], {})}

-----------------------------------------------------------------------------
(* Store operations *)

NoCall == [op |-> "none"]

Call(op, n, h, arg, mo, cand, before, rule, updated, repeat) ==
    [op |-> op, node |-> n, handle |-> h, arg |-> arg, override |-> mo,
     cand |-> cand, before |-> before, rule |-> rule, updated |-> updated,
     repeat |-> repeat]

\* let effectivePayload = { ...payload };
\* if (masterOverride === false) effectivePayload.generationAllowed = false;
EffectivePayload(payload, mo) ==
    IF mo = "false" THEN Set(payload, "generationAllowed", {FALSE}) ELSE payload

\* What a setPayloadRegistry updater returns: prev itself (React then skips
\* the update) or a fresh registry object
Kept(reg) == [reg |-> reg, fresh |-> FALSE]
Fresh(reg) == [reg |-> reg, fresh |-> TRUE]

\* the updater without the deep-equality short-circuit
CommitAlways(reg, n, h, incoming) ==
    LET cur == Stored(reg, n, h)
        reconciled == reconcileTerminalState(incoming, cur)
    IN  IF ReconcileRule(incoming, cur) = "throw" THEN Kept(reg)
        ELSE Fresh(WithEntry(reg, n, h, reconciled))

\* the updater's result for a reconciled candidate
Commit(reg, n, h, incoming) ==
    LET cur == Stored(reg, n, h)
        reconciled == reconcileTerminalState(incoming, cur)
    IN  IF ReconcileRule(incoming, cur) = "throw" THEN Kept(reg)
        ELSE IF cur # {} /\ DeepEqual(Val(cur), reconciled) THEN Kept(reg)
        ELSE Fresh(WithEntry(reg, n, h, reconciled))

RegisterPayloadResult(reg, n, h, payload, mo) ==
    Commit(reg, n, h, EffectivePayload(payload, mo))

\* const mergedPayload = currentPayload ? { ...currentPayload, ...partial } : partial
MergedPayload(cur, partial) ==
    IF cur # {} THEN Drop(Spread(Val(cur), partial.set), partial.clear)
    ELSE partial.set

\* if (!currentPayload && !partial.sourceContainer && !partial.previewUrl) return prev;
UpdateSkipped(cur, partial) ==
    /\ cur = {}
    /\ ~TruthyStr(Opt(partial.set, "sourceContainer"))
    /\ ~TruthyStr(Opt(partial.set, "previewUrl"))

\* updatePayload without the equality short-circuit
UpdatePayloadResultAlwaysFresh(reg, n, h, partial) ==
    LET cur == Stored(reg, n, h)
    IN  IF UpdateSkipped(cur, partial) THEN Kept(reg)
        ELSE CommitAlways(reg, n, h, MergedPayload(cur, partial))

UpdatePayloadResult(reg, n, h, partial) ==
    LET cur == Stored(reg, n, h)
    IN  IF UpdateSkipped(cur, partial) THEN Kept(reg)
        ELSE Commit(reg, n, h, MergedPayload(cur, partial))

UpdatePreviewResult(reg, n, h, url) ==
    LET cur == Stored(reg, n, h)
    IN  IF n \notin DOMAIN reg THEN Kept(reg)
        ELSE IF cur = {} THEN Kept(reg)
        ELSE IF Opt(Val(cur), "previewUrl") = {url} THEN Kept(reg)
        ELSE Fresh(WithEntry(reg, n, h, Set(Val(cur), "previewUrl", {url})))

otherRegistries == <<psdRegistry, templateRegistry, resolvedRegistry,
                     analysisRegistry, knowledgeRegistry>>

\* One call of each behaviour is observed: `last' keeps its arguments and
\* the registry it found.  Calls before it leave no record; after it the
\* behaviour can only repeat the observed registerPayload once.
Unobserved == last.op = "none"

registerPayload(n, h, payload, mo, observe) ==
    LET cur == Stored(payloadRegistry, n, h)
        next == RegisterPayloadResult(payloadRegistry, n, h, payload, mo)
    IN  /\ Unobserved
        /\ payloadRegistry' = next.reg
        /\ last' = IF observe
                   THEN Call("registerPayload", n, h, payload, mo,
                             EffectivePayload(payload, mo), payloadRegistry,
                             ReconcileRule(EffectivePayload(payload, mo), cur),
                             next.fresh, FALSE)
                   ELSE last
        /\ UNCHANGED <<otherRegistries, globalVersion, remapperVars, pureVars>>

\* the observed registerPayload, called again with the same arguments
registerPayloadAgain ==
    /\ last.op = "registerPayload"
    /\ ~last.repeat
    /\ LET cur == Stored(payloadRegistry, last.node, last.handle)
           next == RegisterPayloadResult(payloadRegistry, last.node, last.handle,
                                         last.arg, last.override)
       IN  /\ payloadRegistry' = next.reg
           /\ last' = Call("registerPayload", last.node, last.handle, last.arg,
                           last.override, last.cand, payloadRegistry,
                           ReconcileRule(last.cand, cur), next.fresh, TRUE)
    /\ UNCHANGED <<otherRegistries, globalVersion, remapperVars, pureVars>>

updatePayload(n, h, partial, observe) ==
    LET cur == Stored(payloadRegistry, n, h)
        next == UpdatePayloadResult(payloadRegistry, n, h, partial)
    IN  /\ Unobserved
        /\ payloadRegistry' = next.reg
        /\ last' = IF observe
                   THEN Call("updatePayload", n, h, partial, "undefined",
                             MergedPayload(cur, partial), payloadRegistry,
                             IF UpdateSkipped(cur, partial) THEN "skip"
                             ELSE ReconcileRule(MergedPayload(cur, partial), cur),
                             next.fresh, FALSE)
                   ELSE last
        /\ UNCHANGED <<otherRegistries, globalVersion, remapperVars, pureVars>>

updatePreview(n, h, url, observe) ==
    LET next == UpdatePreviewResult(payloadRegistry, n, h, url)
    IN  /\ Unobserved
        /\ payloadRegistry' = next.reg
        /\ last' = IF observe
                   THEN Call("updatePreview", n, h, url, "undefined", <<>>,
                             payloadRegistry, "direct", next.fresh, FALSE)
                   ELSE last
        /\ UNCHANGED <<otherRegistries, globalVersion, remapperVars, pureVars>>

\* unregisterNode without its clean-up of the knowledge registry
unregisterNodeKeepsKnowledge(n) ==
    /\ Unobserved
    /\ globalVersion < MaxVersion
    /\ psdRegistry' = Without(psdRegistry, n)
    /\ templateRegistry' = Without(templateRegistry, n)
    /\ resolvedRegistry' = Without(resolvedRegistry, n)
    /\ payloadRegistry' = Without(payloadRegistry, n)
    /\ analysisRegistry' = Without(analysisRegistry, n)
    /\ knowledgeRegistry' = knowledgeRegistry
    /\ globalVersion' = globalVersion + 1
    /\ last' = Call("unregisterNode", n, "", <<>>, "undefined", <<>>,
                    payloadRegistry, "none", TRUE, FALSE)
    /\ UNCHANGED <<remapperVars, pureVars>>

\* unregisterNode empties the node's slots, which is the registry of Init:
\* it is always the observed call, and behaviours are not continued past it
unregisterNode(n) ==
    /\ Unobserved
    /\ globalVersion < MaxVersion
    /\ psdRegistry' = Without(psdRegistry, n)
    /\ templateRegistry' = Without(templateRegistry, n)
    /\ resolvedRegistry' = Without(resolvedRegistry, n)
    /\ payloadRegistry' = Without(payloadRegistry, n)
    /\ analysisRegistry' = Without(analysisRegistry, n)
    /\ knowledgeRegistry' =
          IF n \notin DOMAIN knowledgeRegistry THEN knowledgeRegistry
          ELSE Without(knowledgeRegistry, n)
    /\ globalVersion' = globalVersion + 1
    /\ last' = Call("unregisterNode", n, "", <<>>, "undefined", <<>>,
                    payloadRegistry, "none", TRUE, FALSE)
    /\ UNCHANGED <<remapperVars, pureVars>>

\* no strategy on the source context
NoStrategy == [method |-> "NONE", generativePrompt |-> "", isExplicitIntent |-> FALSE]

\* no request
NoRequest == [seq |-> 0, prompt |-> ""]

\* no resolver call in progress
ResolverIdle ==
    /\ templateName = <<>>
    /\ designTree = {}
    /\ resolverResult = {}

\* no document read
ExtractorIdle ==
    /\ parsedPsd = {}
    /\ templateMetadata = {}
    /\ designLayers = {}

\* no transform computed
TransformIdle ==
    /\ transformInput = {}
    /\ transformedLayers = {}
    /\ instancePayload = {}

\* no export running, no edge into the Export node
ExportIdle ==
    /\ exportEdges = <<>>
    /\ isExporting = FALSE
    /\ exportError = {}
    /\ exportClosure = {}
    /\ generationTasks = <<>>
    /\ generatedAssets = <<>>
    /\ newPsd = {}

\* no file chosen yet
LoaderIdle ==
    /\ loaderPending = {}
    /\ parseCalls = 0
    /\ parseResult = {}
    /\ isLoading = FALSE
    /\ localError = {}
    /\ loaderData = [error |-> {}]

\* the graph of a new session, no project file chosen
ProjectIdle ==
    /\ liveNodes = <<[t |-> "string", s |-> "n0"]>>
    /\ liveEdges = <<>>
    /\ liveViewport = [x |-> [t |-> "number", n |-> 0],
                       y |-> [t |-> "number", n |-> 0],
                       zoom |-> [t |-> "number", n |-> 1]]
    /\ projectPending = {}
    /\ projectLoads = 0
    /\ projectRead = {}
    /\ projectAlert = {}

\* no analysis requested yet
AnalystIdle ==
    /\ analystClock = 0
    /\ analyses = {}
    /\ analysesStarted = 0
    /\ analyzingInstances = [index \in {0, 1} |-> FALSE]
    /\ layoutStrategy = [index \in {0, 1} |-> {}]
    /\ chatExplicit = [index \in {0, 1} |-> FALSE]
    /\ draftTimeoutRef = {}
    /\ armedTimers = {}
    /\ draftTriggers = <<>>
    /\ draftCalls = <<>>
    /\ draftsPending = {}

\* const initialEdges
initialEdges ==
    <<[id |-> "e1-2", source |-> "node-1", sourceHandle |-> {},
       target |-> "node-2", targetHandle |-> {}],
      [id |-> "e1-3", source |-> "node-1", sourceHandle |-> {},
       target |-> "node-3", targetHandle |-> {}],
      [id |-> "e-target-1-5", source |-> "node-target-1",
       sourceHandle |-> {"target-metadata-out"},
       target |-> "node-5", targetHandle |-> {"template-input"}]>>

\* the graph of a new session, nothing connected by the user
EditorIdle ==
    /\ appEdges = initialEdges
    /\ connectCall = {}

\* no channel wired, no document loaded, nothing rendered
ChannelsIdle ==
    /\ channelEdges = [index \in {0, 1} |-> {}]
    /\ globalTemplate = {}
    /\ sourceLayers = {}
    /\ renderedChannels = {}

NodesIdle ==
    /\ ExportIdle
    /\ LoaderIdle
    /\ ProjectIdle
    /\ AnalystIdle
    /\ EditorIdle
    /\ ChannelsIdle

PureInit == ResolverIdle /\ ExtractorIdle /\ TransformIdle /\ NodesIdle

\* the store provider after construction
StoreInit ==
    /\ psdRegistry = <<>>
    /\ templateRegistry = <<>>
    /\ resolvedRegistry = <<>>
    /\ payloadRegistry = <<>>
    /\ analysisRegistry = <<>>
    /\ knowledgeRegistry = <<>>
    /\ globalVersion = 0
    /\ last = NoCall

\* the Remapper node after its first render: nothing wired, gates open
RemapperInit ==
    /\ mounted = TRUE
    /\ connected = FALSE
    /\ aiStrategy = NoStrategy
    /\ globalGenerationAllowed = TRUE
    /\ localAllowed = TRUE
    /\ renderedGlobalAllowed = TRUE
    /\ confirmations = ""
    /\ isGeneratingPreview = FALSE
    /\ lastPromptsRef = ""
    /\ inflight = {}
    /\ dispatched = 0
    /\ landed = NoRequest
    /\ finished = "none"
    /\ confirmedUrl = {}
    /\ now = 1

Init ==
    /\ StoreInit
    /\ RemapperInit
    /\ apiKey = TRUE
    /\ PureInit

Next ==
    \/ \E n \in Nodes, h \in Handles, in \in RegisterInputs, o \in BOOLEAN :
          registerPayload(n, h, in[1], in[2], o)
    \/ registerPayloadAgain
    \/ \E n \in Nodes, h \in Handles, p \in Partials, o \in BOOLEAN :
          updatePayload(n, h, p, o)
    \/ \E n \in Nodes, h \in Handles, u \in Urls, o \in BOOLEAN :
          updatePreview(n, h, u, o)
    \/ \E n \in Nodes : unregisterNode(n)

Spec == Init /\ [][Next]_vars

-----------------------------------------------------------------------------
(* Part 2: the Remapper node (src/components/RemapperNode.tsx), instance 0. *)
(*                                                                          *)
(* JavaScript runs one handler at a time: an event handler, the effects of  *)
(* one render and the continuation of an awaited request are one step each. *)
(* State updaters queued by a step are applied in the order they were       *)
(* queued, and setState calls of one step are batched into one render.      *)
(* The preview shown on screen (displayPreviews, isTransitioningRef,        *)
(* previousBlobsRef) never reaches the store and is left out.               *)

nodeId == "remapper"
resultOut == "result-out-0"

\* the strategies the upstream analysis may publish for the source
Strategies ==
    {NoStrategy,
     [method |-> "GEOMETRIC", generativePrompt |-> "", isExplicitIntent |-> FALSE],
     [method |-> "GENERATIVE", generativePrompt |-> "p1", isExplicitIntent |-> TRUE],
     [method |-> "GENERATIVE", generativePrompt |-> "p2", isExplicitIntent |-> FALSE]}

\* `data:image/png;base64,${base64Data}` of the image returned to request seq
DraftUrl(seq) == <<"data:1", "data:2", "data:3", "data:4">>[seq]

\* masterOverride as registerPayload receives it
OverrideOf(b) == IF b THEN "true" ELSE "false"

effectiveAllowedLocalOnly == localAllowed

\* const effectiveAllowed = globalGenerationAllowed && localAllowed
effectiveAllowed == globalGenerationAllowed /\ localAllowed

\* const isConfirmed = !!currentPrompt && currentPrompt === confirmedPrompt
PromptConfirmed(conf) ==
    aiStrategy.generativePrompt # "" /\ aiStrategy.generativePrompt = conf

\* status of the computed payload; the instance's scale is 1, below the
\* stretch threshold
InstanceStatus(conf) ==
    IF aiStrategy.generativePrompt # "" /\ ~PromptConfirmed(conf)
       /\ aiStrategy.isExplicitIntent
    THEN "awaiting_confirmation"
    ELSE "success"

\* transformedLayers, with the generative layer unshifted when confirmed
InstanceLayers(conf) ==
    IF PromptConfirmed(conf)
    THEN <<GenLayer("gen-layer-SRC"), Leaf("0.0")>>
    ELSE <<Leaf("0.0")>>

\* instances[0].payload as the render computes it from the props, the
\* confirmations and the stored payload; {} for null
InstancePayload(reg, conf) ==
    IF ~connected THEN {}
    ELSE LET storePayload == Stored(reg, nodeId, resultOut)
             computed ==
                 [status |-> InstanceStatus(conf),
                  sourceNodeId |-> "psd",
                  sourceContainer |-> "SRC",
                  targetContainer |-> "T1",
                  layers |-> InstanceLayers(conf),
                  scaleFactor |-> 1,
                  metrics |-> Metrics(1, 1),
                  requiresGeneration |-> PromptConfirmed(conf),
                  isConfirmed |-> PromptConfirmed(conf),
                  isTransient |-> ~PromptConfirmed(conf),
                  generationAllowed |-> effectiveAllowed]
             fromStore ==
                 Set(Set(Set(computed,
                     "previewUrl", OrStr(OptCur(storePayload, "previewUrl"), {})),
                     "generationId", OptCur(storePayload, "generationId")),
                     "isSynthesizing", OptCur(storePayload, "isSynthesizing"))
         IN  {fromStore}

\* the patches of the lazy synthesis effect and of generateDraft
GeometricReset == Patch([isConfirmed |-> FALSE, isTransient |-> FALSE], {"previewUrl"})
RevokeConfirmation == Patch(("isConfirmed" :> FALSE), {})
SynthesisStart == Patch(("isSynthesizing" :> TRUE), {})
SynthesisFailed == Patch(("isSynthesizing" :> FALSE), {})
DraftAsset(url, t) ==
    Patch([previewUrl |-> url, isTransient |-> TRUE, isSynthesizing |-> FALSE,
           generationId |-> t], {})
ConfirmedAsset(url, t) ==
    Patch([previewUrl |-> url, isConfirmed |-> TRUE, isTransient |-> FALSE,
           sourceReference |-> url, generationId |-> t], {})

\* updatePayload(id, 'result-out-0', partial) applied to a registry
Updated(reg, partial) == UpdatePayloadResult(reg, nodeId, resultOut, partial).reg

\* Sync Cleanup on Global Disable: runs when globalGenerationAllowed changed
CleanupRuns ==
    globalGenerationAllowed # renderedGlobalAllowed /\ ~globalGenerationAllowed

\* the effect registering open payloads only
SyncPayloadsWhenOpen(reg, payload) ==
    IF payload # {} /\ ~isGeneratingPreview
       /\ TruthyBool(Opt(Val(payload), "generationAllowed"))
       /\ globalGenerationAllowed
    THEN RegisterPayloadResult(reg, nodeId, resultOut, Val(payload),
                               OverrideOf(globalGenerationAllowed)).reg
    ELSE reg

\* Sync Payloads to Store: the registry after the effect's registerPayload
SyncPayloads(reg, payload) ==
    IF payload # {} /\ ~isGeneratingPreview
    THEN RegisterPayloadResult(reg, nodeId, resultOut, Val(payload),
                               OverrideOf(globalGenerationAllowed)).reg
    ELSE reg

\* the lazy synthesis effect reads the render's payload and the registry of
\* the render
promptChanged ==
    aiStrategy.generativePrompt # ""
    /\ aiStrategy.generativePrompt # lastPromptsRef

needsInitialPreview(payload) ==
    /\ Opt(Val(payload), "status") = {"awaiting_confirmation"}
    /\ aiStrategy.generativePrompt # ""
    /\ ~TruthyStr(OptCur(Stored(payloadRegistry, nodeId, resultOut), "previewUrl"))

\* if (!instance.payload?.generationAllowed)
SynthesisGuard(payload) ==
    payload = {} \/ ~TruthyBool(Opt(Val(payload), "generationAllowed"))

isRefinementDetected ==
    /\ aiStrategy.generativePrompt # ""
    /\ confirmations # ""
    /\ aiStrategy.generativePrompt # confirmations

\* generateDraft is called
Dispatches(payload) ==
    /\ ~SynthesisGuard(payload)
    /\ aiStrategy.method # "GEOMETRIC"
    /\ promptChanged \/ needsInitialPreview(payload)
    /\ ~(isGeneratingPreview /\ ~promptChanged)

\* the registry after the updatePayload calls of the lazy synthesis effect,
\* queued behind the registerPayload of the sync effect
LazySynthesis(reg, payload) ==
    LET storePayload == Stored(payloadRegistry, nodeId, resultOut)
        revoked == IF isRefinementDetected
                      /\ TruthyBool(OptCur(storePayload, "isConfirmed"))
                   THEN Updated(reg, RevokeConfirmation)
                   ELSE reg
    IN  IF SynthesisGuard(payload) THEN reg
        ELSE IF aiStrategy.method = "GEOMETRIC"
        THEN IF TruthyStr(OptCur(storePayload, "previewUrl"))
                \/ TruthyBool(OptCur(storePayload, "isConfirmed"))
             THEN Updated(reg, GeometricReset)
             ELSE reg
        ELSE IF Dispatches(payload) THEN Updated(revoked, SynthesisStart)
        ELSE revoked

\* isGeneratingPreview[0] after the setters of the effects: the cleanup's
\* {}, the guard's false, generateDraft's true and, without an API key, the
\* false of its finally block
GeneratingAfterEffects(payload) ==
    IF Dispatches(payload) THEN apiKey
    ELSE IF SynthesisGuard(payload) THEN FALSE
    ELSE IF CleanupRuns THEN FALSE
    ELSE isGeneratingPreview

\* the variables a step of the Remapper never touches
storeRest == <<otherRegistries, globalVersion, last>>

\* One render's effects: cleanup on global disable (619-625), sync payloads
\* to store (928-937) and lazy synthesis (971-1080) with the synchronous
\* part of generateDraft, followed by the queued updaters.
runEffects ==
    \E payload \in {InstancePayload(payloadRegistry, confirmations)} :
    \E synced \in {SyncPayloads(payloadRegistry, payload)} :
    \E sends \in {Dispatches(payload) /\ apiKey} :
        /\ mounted
        /\ sends => dispatched < MaxRequests
        /\ payloadRegistry' = LazySynthesis(synced, payload)
        /\ confirmations' = (IF CleanupRuns THEN "" ELSE confirmations)
        /\ isGeneratingPreview' = GeneratingAfterEffects(payload)
        /\ renderedGlobalAllowed' = globalGenerationAllowed
        /\ lastPromptsRef' = (IF Dispatches(payload) THEN aiStrategy.generativePrompt
                              ELSE lastPromptsRef)
        /\ inflight' = (IF sends
                        THEN inflight \cup {[seq |-> dispatched + 1,
                                             prompt |-> aiStrategy.generativePrompt]}
                        ELSE inflight)
        /\ dispatched' = (IF sends THEN dispatched + 1 ELSE dispatched)
        /\ finished' = (IF ~Dispatches(payload) THEN finished
                        ELSE IF apiKey THEN "none" ELSE "noKey")
        /\ UNCHANGED <<pureVars, storeRest, nodeDataVars, mounted, apiKey, landed,
                       confirmedUrl, now>>

\* generateContent returned an image: PHASE 2 FILL, then the finally block
draftArrives(r) ==
    /\ r \in inflight
    /\ \E t \in now .. MaxNow :
          /\ now' = t
          /\ payloadRegistry' =
                Updated(payloadRegistry, DraftAsset(DraftUrl(r.seq), t))
    /\ inflight' = inflight \ {r}
    /\ landed' = r
    /\ finished' = "success"
    /\ isGeneratingPreview' = (IF mounted THEN FALSE ELSE isGeneratingPreview)
    /\ UNCHANGED <<pureVars, storeRest, nodeDataVars, mounted, renderedGlobalAllowed,
                   apiKey, confirmations, lastPromptsRef, dispatched, confirmedUrl>>

\* generateContent threw: the catch block, then the finally block
draftFails(r) ==
    /\ r \in inflight
    /\ payloadRegistry' = Updated(payloadRegistry, SynthesisFailed)
    /\ inflight' = inflight \ {r}
    /\ finished' = "error"
    /\ isGeneratingPreview' = (IF mounted THEN FALSE ELSE isGeneratingPreview)
    /\ UNCHANGED <<pureVars, storeRest, nodeDataVars, mounted, renderedGlobalAllowed,
                   apiKey, confirmations, lastPromptsRef, dispatched, landed,
                   confirmedUrl, now>>

\* generateContent returned no image part: the finally block only
draftEmpty(r) ==
    /\ r \in inflight
    /\ inflight' = inflight \ {r}
    /\ finished' = "noImage"
    /\ isGeneratingPreview' = (IF mounted THEN FALSE ELSE isGeneratingPreview)
    /\ UNCHANGED <<pureVars, storeVars, last, nodeDataVars, mounted, renderedGlobalAllowed,
                   apiKey, confirmations, lastPromptsRef, dispatched, landed,
                   confirmedUrl, now>>

\* the Confirm button of the overlay is shown
showConfirmButton ==
    LET storePayload == Stored(payloadRegistry, nodeId, resultOut)
    IN  /\ connected
        /\ effectiveAllowed
        /\ TruthyStr(OptCur(storePayload, "previewUrl"))
        /\ ~TruthyBool(OptCur(storePayload, "isConfirmed"))
        /\ ~isGeneratingPreview
        /\ ~TruthyBool(OptCur(storePayload, "isSynthesizing"))

\* handleConfirmGeneration(0, prompt, url) with the preview on screen
handleConfirmGeneration ==
    /\ mounted
    /\ showConfirmButton
    /\ confirmations' = aiStrategy.generativePrompt
    /\ confirmedUrl' = OptCur(Stored(payloadRegistry, nodeId, resultOut), "previewUrl")
    /\ \E t \in now .. MaxNow :
          /\ now' = t
          /\ payloadRegistry' =
                Updated(payloadRegistry,
                        ConfirmedAsset(Val(OptCur(Stored(payloadRegistry, nodeId,
                                                         resultOut), "previewUrl")), t))
    /\ UNCHANGED <<pureVars, storeRest, nodeDataVars, mounted, renderedGlobalAllowed, apiKey,
                   isGeneratingPreview, lastPromptsRef, inflight, dispatched,
                   landed, finished>>

toggleMasterGeneration ==
    /\ mounted
    /\ globalGenerationAllowed' = ~globalGenerationAllowed
    /\ localAllowed' = ~globalGenerationAllowed
    /\ UNCHANGED <<pureVars, storeVars, last, connected, aiStrategy, componentVars, requestVars>>

toggleInstanceGeneration ==
    /\ mounted
    /\ localAllowed' = ~localAllowed
    /\ UNCHANGED <<pureVars, storeVars, last, connected, aiStrategy, globalGenerationAllowed,
                   componentVars, requestVars>>

\* an edge of the instance is added or removed
rewire ==
    /\ mounted
    /\ connected' = ~connected
    /\ UNCHANGED <<pureVars, storeVars, last, aiStrategy, globalGenerationAllowed, localAllowed,
                   componentVars, requestVars>>

\* the upstream analysis publishes another strategy for the source
strategyChanges(s) ==
    /\ mounted
    /\ s # aiStrategy
    /\ aiStrategy' = s
    /\ UNCHANGED <<pureVars, storeVars, last, connected, globalGenerationAllowed, localAllowed,
                   componentVars, requestVars>>

\* the node is removed: the unmount effect calls unregisterNode(id)
unmount ==
    /\ mounted
    /\ globalVersion < MaxVersion
    /\ mounted' = FALSE
    /\ psdRegistry' = Without(psdRegistry, nodeId)
    /\ templateRegistry' = Without(templateRegistry, nodeId)
    /\ resolvedRegistry' = Without(resolvedRegistry, nodeId)
    /\ payloadRegistry' = Without(payloadRegistry, nodeId)
    /\ analysisRegistry' = Without(analysisRegistry, nodeId)
    /\ knowledgeRegistry' =
          IF nodeId \notin DOMAIN knowledgeRegistry THEN knowledgeRegistry
          ELSE Without(knowledgeRegistry, nodeId)
    /\ globalVersion' = globalVersion + 1
    /\ UNCHANGED <<pureVars, last, nodeDataVars, renderedGlobalAllowed, apiKey, confirmations,
                   isGeneratingPreview, lastPromptsRef, requestVars>>

InitRemapper ==
    /\ StoreInit
    /\ RemapperInit
    /\ apiKey \in BOOLEAN
    /\ PureInit

NextRemapper ==
    \/ runEffects
    \/ \E r \in inflight : draftArrives(r)
    \/ \E r \in inflight : draftFails(r)
    \/ \E r \in inflight : draftEmpty(r)
    \/ handleConfirmGeneration
    \/ toggleMasterGeneration
    \/ toggleInstanceGeneration
    \/ rewire
    \/ \E s \in Strategies : strategyChanges(s)
    \/ unmount

SpecRemapper == InitRemapper /\ [][NextRemapper]_vars

\* React runs the effects of every render, however often events change the
\* props in between, and a request sent to the API comes back
FairSpecRemapper ==
    /\ SpecRemapper
    /\ SF_vars(runEffects)
    /\ WF_vars(\E r \in inflight : draftArrives(r) \/ draftFails(r) \/ draftEmpty(r))

\* The race between a draft request and the gate: the instance stays mounted
\* and wired to a source whose strategy carries a prompt, the user toggles
\* the gates and confirms previews, requests come back in any order.
InitGateRace ==
    /\ StoreInit
    /\ mounted = TRUE
    /\ connected = TRUE
    /\ aiStrategy \in {s \in Strategies : s.generativePrompt # ""}
    /\ globalGenerationAllowed = TRUE
    /\ localAllowed = TRUE
    /\ renderedGlobalAllowed = TRUE
    /\ confirmations = ""
    /\ isGeneratingPreview = FALSE
    /\ lastPromptsRef = ""
    /\ inflight = {}
    /\ dispatched = 0
    /\ landed = NoRequest
    /\ finished = "none"
    /\ confirmedUrl = {}
    /\ now = 1
    /\ apiKey = TRUE
    /\ PureInit

NextGateRace ==
    \/ runEffects
    \/ \E r \in inflight : draftArrives(r)
    \/ \E r \in inflight : draftFails(r)
    \/ \E r \in inflight : draftEmpty(r)
    \/ handleConfirmGeneration
    \/ toggleMasterGeneration
    \/ toggleInstanceGeneration

SpecGateRace == InitGateRace /\ [][NextGateRace]_vars

\* the effects of every render run and every request sent comes back
FairSpecGateRace ==
    /\ SpecGateRace
    /\ SF_vars(runEffects)
    /\ WF_vars(\E r \in inflight : draftArrives(r) \/ draftFails(r) \/ draftEmpty(r))

-----------------------------------------------------------------------------
(* Part 3: the registries of the store and unregisterNode                  *)
(* (src/store/ProceduralContext.tsx 145-206, 270-294, 319-341).            *)

\* the producers that register into the store
AllNodes == {"remapper", "loader"}

\* the mapping contexts handed to registerResolved
ResolvedContexts ==
    {[container |-> "SRC", layers |-> <<Leaf("0.0")>>, status |-> "resolved"],
     [container |-> "SRC", layers |-> <<Leaf("0.0")>>, status |-> "resolved",
      previewUrl |-> "u1",
      aiStrategy |-> [method |-> "GENERATIVE", generativePrompt |-> "p1",
                      isExplicitIntent |-> TRUE]],
     [container |-> "SRC", layers |-> <<Leaf("0.0")>>, status |-> "resolved",
      previewUrl |-> "u1", generationAllowed |-> FALSE,
      aiStrategy |-> [method |-> "GENERATIVE", generativePrompt |-> "p1",
                      isExplicitIntent |-> TRUE]],
     [container |-> "SRC", layers |-> <<Leaf("0.0")>>, status |-> "resolved",
      previewUrl |-> "u1",
      aiStrategy |-> [method |-> "GEOMETRIC", generativePrompt |-> "p1",
                      isExplicitIntent |-> FALSE]],
     [container |-> "SRC", layers |-> <<Leaf("0.0")>>, status |-> "resolved",
      previewUrl |-> "u1",
      aiStrategy |-> [method |-> "HYBRID", generativePrompt |-> "p1",
                      isExplicitIntent |-> FALSE, generationAllowed |-> FALSE]],
     [container |-> "SRC", layers |-> <<Leaf("0.0")>>, status |-> "resolved",
      previewUrl |-> "u1", generationAllowed |-> FALSE]}

\* the ghost flushing that looks at the flag of the context only
SanitizedContextByContextFlag(context) ==
    IF Opt(context, "generationAllowed") = {FALSE}
    THEN LET flushed == Set(context, "previewUrl", {})
             strategy ==
                 IF Has(context, "aiStrategy")
                 THEN {Set(Set(context.aiStrategy, "generativePrompt", {""}),
                           "generationAllowed", {FALSE})}
                 ELSE {}
         IN  Set(Set(flushed, "aiStrategy", strategy), "generationAllowed", {FALSE})
    ELSE IF Has(context, "aiStrategy") /\ context.aiStrategy.method = "GEOMETRIC"
    THEN Set(Set(context, "previewUrl", {}),
             "aiStrategy", {Set(context.aiStrategy, "generativePrompt", {""})})
    ELSE context

\* the ghost flushing of registerResolved; isGenerationDisallowed is
\* context.generationAllowed === false || context.aiStrategy?.generationAllowed === false
SanitizedContext(context) ==
    IF \/ Opt(context, "generationAllowed") = {FALSE}
       \/ /\ Has(context, "aiStrategy")
          /\ Opt(context.aiStrategy, "generationAllowed") = {FALSE}
    THEN LET flushed == Set(context, "previewUrl", {})
             strategy ==
                 IF Has(context, "aiStrategy")
                 THEN {Set(Set(context.aiStrategy, "generativePrompt", {""}),
                           "generationAllowed", {FALSE})}
                 ELSE {}
         IN  Set(Set(flushed, "aiStrategy", strategy), "generationAllowed", {FALSE})
    ELSE IF Has(context, "aiStrategy") /\ context.aiStrategy.method = "GEOMETRIC"
    THEN Set(Set(context, "previewUrl", {}),
             "aiStrategy", {Set(context.aiStrategy, "generativePrompt", {""})})
    ELSE context

\* { ...prev, [nodeId]: v }
WithNode(reg, n, v) == (n :> v) @@ reg

\* the updater of a flat registry with the JSON.stringify short-circuit
FlatRegistered(reg, n, v) ==
    IF n \in DOMAIN reg /\ DeepEqual(reg[n], v) THEN reg ELSE WithNode(reg, n, v)

\* the updater of a registry keyed by node and handle
SlotRegistered(reg, n, h, v) ==
    LET cur == Stored(reg, n, h)
    IN  IF cur # {} /\ DeepEqual(Val(cur), v) THEN reg ELSE WithEntry(reg, n, h, v)

registerPsd(n, psd) ==
    /\ Unobserved
    /\ psdRegistry' = WithNode(psdRegistry, n, psd)
    /\ UNCHANGED <<templateRegistry, resolvedRegistry, payloadRegistry,
                   analysisRegistry, knowledgeRegistry, globalVersion, last,
                   remapperVars, pureVars>>

registerTemplate(n, template) ==
    /\ Unobserved
    /\ templateRegistry' = FlatRegistered(templateRegistry, n, template)
    /\ UNCHANGED <<psdRegistry, resolvedRegistry, payloadRegistry,
                   analysisRegistry, knowledgeRegistry, globalVersion, last,
                   remapperVars, pureVars>>

registerResolved(n, h, context) ==
    /\ Unobserved
    /\ resolvedRegistry' =
          SlotRegistered(resolvedRegistry, n, h, SanitizedContext(context))
    /\ UNCHANGED <<psdRegistry, templateRegistry, payloadRegistry,
                   analysisRegistry, knowledgeRegistry, globalVersion, last,
                   remapperVars, pureVars>>

registerAnalysis(n, h, strategy) ==
    /\ Unobserved
    /\ analysisRegistry' = SlotRegistered(analysisRegistry, n, h, strategy)
    /\ UNCHANGED <<psdRegistry, templateRegistry, resolvedRegistry,
                   payloadRegistry, knowledgeRegistry, globalVersion, last,
                   remapperVars, pureVars>>

registerKnowledge(n, context) ==
    /\ Unobserved
    /\ knowledgeRegistry' = FlatRegistered(knowledgeRegistry, n, context)
    /\ UNCHANGED <<psdRegistry, templateRegistry, resolvedRegistry,
                   payloadRegistry, analysisRegistry, globalVersion, last,
                   remapperVars, pureVars>>

triggerGlobalRefresh ==
    /\ Unobserved
    /\ globalVersion < MaxVersion
    /\ globalVersion' = globalVersion + 1
    /\ UNCHANGED <<psdRegistry, templateRegistry, resolvedRegistry,
                   payloadRegistry, analysisRegistry, knowledgeRegistry, last,
                   remapperVars, pureVars>>

NextRegistries ==
    \/ \E n \in AllNodes : registerPsd(n, "psd1")
    \/ \E n \in AllNodes : registerTemplate(n, "tpl1")
    \/ \E n \in AllNodes, c \in ResolvedContexts : registerResolved(n, "source-out-0", c)
    \/ \E n \in AllNodes :
          registerPayload(n, resultOut,
                          Content1 @@ [status |-> "success", generationAllowed |-> TRUE],
                          "true", FALSE)
    \/ \E n \in AllNodes :
          registerAnalysis(n, "source-out-0",
                           [method |-> "GENERATIVE", generativePrompt |-> "p1",
                            isExplicitIntent |-> TRUE])
    \/ \E n \in AllNodes : registerKnowledge(n, "rules1")
    \/ triggerGlobalRefresh
    \/ \E n \in AllNodes : unregisterNode(n)

SpecRegistries == Init /\ [][NextRegistries]_vars

-----------------------------------------------------------------------------
(* Part 4: the container resolver (usePsdResolver).  Names are sequences of
   characters; a SerializableLayer is a record of id, name, type and
   children, children being <<>> for a layer (children: undefined) and for
   an empty group. *)

MaxNodes == 3

\* String.prototype.toLowerCase, character by character
toLowerCase(str) ==
    [i \in DOMAIN str |->
        IF str[i] = "A" THEN "a" ELSE IF str[i] = "B" THEN "b" ELSE str[i]]

\* str.replace(/^!+/, '')
RECURSIVE StripMarkers(_)
StripMarkers(str) ==
    IF str # <<>> /\ Head(str) = "!" THEN StripMarkers(Tail(str)) ELSE str

\* String.prototype.trim
RECURSIVE trimStart(_)
trimStart(str) ==
    IF str # <<>> /\ Head(str) = " " THEN trimStart(Tail(str)) ELSE str
RECURSIVE trimEnd(_)
trimEnd(str) ==
    IF str # <<>> /\ str[Len(str)] = " "
    THEN trimEnd(SubSeq(str, 1, Len(str) - 1)) ELSE str
trim(str) == trimEnd(trimStart(str))

\* const cleanTargetName = templateName.replace(/^!+/, '').trim();
cleanTargetName(name) == trim(StripMarkers(name))

\* a SerializableLayer
Layer(id, name, type, children) ==
    [id |-> id, name |-> name, type |-> type, children |-> children]

\* findLayerDeep: the first match of the loop over the tree, the rest of the
\* loop being the search of the tail; {} for null
RECURSIVE findLayerDeep(_, _, _)
findLayerDeep(tree, targetName, caseSensitive) ==
    IF tree = <<>> THEN {}
    ELSE LET layer == Head(tree)
             isMatch == IF caseSensitive THEN layer.name = targetName
                        ELSE toLowerCase(layer.name) = toLowerCase(targetName)
             foundInChildren ==
                 IF Len(layer.children) > 0
                 THEN findLayerDeep(layer.children, targetName, caseSensitive)
                 ELSE {}
         IN  IF isMatch THEN {layer}
             ELSE IF foundInChildren # {} THEN foundInChildren
             ELSE findLayerDeep(Tail(tree), targetName, caseSensitive)

\* children.reduce((sum, child) => sum + getRecursiveLeafCount(child), 0)
RECURSIVE getRecursiveLeafCount(_)
RECURSIVE SumLeafCounts(_, _)
SumLeafCounts(children, i) ==
    IF i > Len(children) THEN 0
    ELSE getRecursiveLeafCount(children[i]) + SumLeafCounts(children, i + 1)

\* the count that stops at the children of the matched node
ShallowLeafCount(layer) ==
    IF layer.type # "group" THEN 1
    ELSE Cardinality({i \in DOMAIN layer.children : layer.children[i].type # "group"})

getRecursiveLeafCount(layer) ==
    IF layer.type # "group" THEN 1
    ELSE IF Len(layer.children) = 0 THEN 0
    ELSE SumLeafCounts(layer.children, 1)

\* a ResolverResult, without its message
ResolverResult(status, layer, totalCount) ==
    [status |-> status, layer |-> layer, totalCount |-> totalCount]

\* the result for a matched layer
Matched(layer, status) ==
    IF getRecursiveLeafCount(layer) = 0
    THEN ResolverResult("EMPTY_GROUP", {layer}, 0)
    ELSE ResolverResult(status, {layer}, getRecursiveLeafCount(layer))

\* resolveLayer that looks at the name before it looks at the tree
resolveLayerNameFirst(name, tree) ==
    IF name = <<>> THEN ResolverResult("NO_NAME", {}, 0)
    ELSE IF cleanTargetName(name) = <<>> THEN ResolverResult("NO_NAME", {}, 0)
    ELSE IF tree = {} THEN ResolverResult("DATA_LOCKED", {}, 0)
    ELSE LET strictMatch == findLayerDeep(Val(tree), cleanTargetName(name), TRUE)
             looseMatch == findLayerDeep(Val(tree), cleanTargetName(name), FALSE)
         IN  IF strictMatch # {} THEN Matched(Val(strictMatch), "RESOLVED")
             ELSE IF looseMatch # {} THEN Matched(Val(looseMatch), "CASE_MISMATCH")
             ELSE ResolverResult("MISSING_DESIGN_GROUP", {}, 0)

\* resolveLayer that tries the case-insensitive search first
resolveLayerLooseFirst(name, tree) ==
    IF tree = {} THEN ResolverResult("DATA_LOCKED", {}, 0)
    ELSE IF name = <<>> THEN ResolverResult("NO_NAME", {}, 0)
    ELSE IF cleanTargetName(name) = <<>> THEN ResolverResult("NO_NAME", {}, 0)
    ELSE LET looseMatch == findLayerDeep(Val(tree), cleanTargetName(name), FALSE)
         IN  IF looseMatch = {} THEN ResolverResult("MISSING_DESIGN_GROUP", {}, 0)
             ELSE IF Val(looseMatch).name = cleanTargetName(name)
                  THEN Matched(Val(looseMatch), "RESOLVED")
             ELSE Matched(Val(looseMatch), "CASE_MISMATCH")

resolveLayer(name, tree) ==
    IF tree = {} THEN ResolverResult("DATA_LOCKED", {}, 0)
    ELSE IF name = <<>> THEN ResolverResult("NO_NAME", {}, 0)
    ELSE IF cleanTargetName(name) = <<>> THEN ResolverResult("NO_NAME", {}, 0)
    ELSE LET strictMatch == findLayerDeep(Val(tree), cleanTargetName(name), TRUE)
             looseMatch == findLayerDeep(Val(tree), cleanTargetName(name), FALSE)
         IN  IF strictMatch # {} THEN Matched(Val(strictMatch), "RESOLVED")
             ELSE IF looseMatch # {} THEN Matched(Val(looseMatch), "CASE_MISMATCH")
             ELSE ResolverResult("MISSING_DESIGN_GROUP", {}, 0)

\* layer trees of n nodes as getCleanLayerTree builds them, ids left open:
\* a node with children is a group, a childless node a layer or an empty group
RECURSIVE Forests(_)
Forests(n) ==
    IF n = 0 THEN {<<>>}
    ELSE UNION { { <<Layer("", name,
                           IF kids # <<>> THEN "group" ELSE type, kids)>> \o rest :
                     name \in {<<"A">>, <<"a">>, <<"A", " ">>},
                     type \in {"group", "layer"},
                     kids \in Forests(j), rest \in Forests(n - 1 - j) } :
                 j \in 0 .. (n - 1) }

\* the deterministic path ids of getCleanLayerTree; paths are sequences of indices
RECURSIVE WithPaths(_, _)
WithPaths(layers, path) ==
    [index \in DOMAIN layers |->
        Layer(Append(path, index - 1), layers[index].name, layers[index].type,
              WithPaths(layers[index].children, Append(path, index - 1)))]

\* the container resolver node calls resolveLayer(containerName, designLayers)
resolveContainer ==
    /\ resolverResult = {}
    /\ resolverResult' = {resolveLayer(templateName, designTree)}
    /\ UNCHANGED <<storeVars, last, remapperVars, templateName, designTree,
                   extractorVars, transformVars, nodeVars>>

InitResolver ==
    /\ StoreInit
    /\ RemapperInit
    /\ apiKey = TRUE
    /\ templateName \in
          {<<>>, <<"!", "!">>, <<"!", "!", " ">>, <<"A">>, <<"!", "!", "a">>,
           <<"A", " ">>, <<"!", " ", "A">>, <<"B">>}
    /\ designTree \in
          {{}} \cup UNION { {{WithPaths(f, <<>>)} : f \in Forests(n)} :
                            n \in 0 .. MaxNodes }
    /\ resolverResult = {}
    /\ ExtractorIdle
    /\ TransformIdle
    /\ NodesIdle

NextResolver == resolveContainer

SpecResolver == InitResolver /\ [][NextResolver]_vars

-----------------------------------------------------------------------------
(* Part 5: the container extractor (extractTemplateMetadata).  The names of
   top-level layers are only compared and are strings; the names of the
   children of the template group are rewritten and are sequences of
   characters.  An optional property is {} or {value}. *)

MaxContainers == 2

\* child.top ?? 0
OrZero(o) == IF o = {} THEN 0 ELSE Val(o)

\* child.name || 'Untitled'
RawName(o) ==
    IF o = {} \/ o = {<<>>} THEN <<"U", "n", "t", "i", "t", "l", "e", "d">> ELSE Val(o)

\* cleanName.replace(/\s+/g, '_')
RECURSIVE Underscored(_)
Underscored(str) ==
    IF str = <<>> THEN <<>>
    ELSE IF Head(str) = " "
         THEN <<"_">> \o Underscored(trimStart(str))
    ELSE <<Head(str)>> \o Underscored(Tail(str))

\* the decimal digits of an index
RECURSIVE Decimal(_)
Decimal(n) ==
    LET digit == <<"0", "1", "2", "3", "4", "5", "6", "7", "8", "9">>[(n % 10) + 1]
    IN  IF n < 10 THEN <<digit>> ELSE Append(Decimal(n \div 10), digit)

\* a quotient that is not evaluated
Ratio(num, den) == [num |-> num, den |-> den]

\* the ContainerDefinition pushed for child number index (from 0):
\*   cleanName = rawName.replace(/^!!/, '')
\*   id = `container-${index}-${cleanName.replace(/\s+/g, '_')}`
ContainerOf(child, index, canvasWidth, canvasHeight) ==
    LET top == OrZero(child.top)
        left == OrZero(child.left)
        bottom == OrZero(child.bottom)
        right == OrZero(child.right)
        width == right - left
        height == bottom - top
        rawName == RawName(child.name)
        cleanName ==
            IF Len(rawName) >= 2 /\ rawName[1] = "!" /\ rawName[2] = "!"
            THEN SubSeq(rawName, 3, Len(rawName)) ELSE rawName
    IN  [id |-> <<"container-">> \o Decimal(index) \o <<"-">>
                   \o Underscored(cleanName),
         name |-> cleanName,
         originalName |-> rawName,
         bounds |-> [x |-> left, y |-> top, w |-> width, h |-> height],
         normalized |-> [x |-> Ratio(left, canvasWidth), y |-> Ratio(top, canvasHeight),
                         w |-> Ratio(width, canvasWidth),
                         h |-> Ratio(height, canvasHeight)]]

\* canvasWidth is psd.width || 1; templateGroup is
\* psd.children?.find(child => child.name === '!!TEMPLATE'), {} for undefined
extractTemplateMetadata(document) ==
    LET canvasWidth == IF document.width = 0 THEN 1 ELSE document.width
        canvasHeight == IF document.height = 0 THEN 1 ELSE document.height
        templateGroup ==
            IF document.children = {} THEN {}
            ELSE LET layers == Val(document.children)
                     named == {i \in DOMAIN layers : layers[i].name = "!!TEMPLATE"}
                 IN  IF named = {} THEN {}
                     ELSE {layers[CHOOSE i \in named : \A j \in named : i <= j]}
        containers ==
            IF templateGroup # {} /\ Val(templateGroup).children # {}
            THEN [i \in DOMAIN Val(Val(templateGroup).children) |->
                     ContainerOf(Val(Val(templateGroup).children)[i], i - 1,
                                 canvasWidth, canvasHeight)]
            ELSE <<>>
    IN  [canvas |-> [width |-> canvasWidth, height |-> canvasHeight],
         containers |-> containers]

\* the children of a template group: a name or none, coordinates or none
TemplateChildren ==
    {[name |-> n] @@ c :
        n \in {{}, {<<"!", "!", "A">>}, {<<"A", " ", " ", "B">>}},
        c \in {[top |-> {}, left |-> {}, bottom |-> {}, right |-> {}],
               [top |-> {1}, left |-> {2}, bottom |-> {4}, right |-> {6}]}}

\* the sequences over S of length n
RECURSIVE SeqsOfLen(_, _)
SeqsOfLen(S, n) ==
    IF n = 0 THEN {<<>>}
    ELSE {Append(s, x) : s \in SeqsOfLen(S, n - 1), x \in S}

\* the top-level layers of a document: a design group, a layer that bears
\* the template name, template groups
TopLevelLayers ==
    {[name |-> "Design", children |-> {<<>>}], [name |-> "!!TEMPLATE", children |-> {}]}
    \cup {[name |-> "!!TEMPLATE", children |-> {cs}] :
             cs \in UNION {SeqsOfLen(TemplateChildren, k) : k \in 0 .. MaxContainers}}

\* a loader node parses a file and extracts the template
extractTemplate ==
    /\ parsedPsd # {}
    /\ templateMetadata = {}
    /\ templateMetadata' = {extractTemplateMetadata(Val(parsedPsd))}
    /\ UNCHANGED <<storeVars, last, remapperVars, resolverVars, parsedPsd,
                   designLayers, transformVars, nodeVars>>

InitExtractor ==
    /\ StoreInit
    /\ RemapperInit
    /\ apiKey = TRUE
    /\ ResolverIdle
    /\ parsedPsd \in
          {{[width |-> w, height |-> h, children |-> cs]} :
              w \in {0, 4}, h \in {0, 8},
              cs \in {{}} \cup {{<<>>}} \cup {{<<a>>} : a \in TopLevelLayers}
                     \cup {{<<a, b>>} : a \in TopLevelLayers, b \in TopLevelLayers}}
    /\ templateMetadata = {}
    /\ designLayers = {}
    /\ TransformIdle
    /\ NodesIdle

NextExtractor == extractTemplate

SpecExtractor == InitExtractor /\ [][NextExtractor]_vars

-----------------------------------------------------------------------------
(* Part 6: the transform of the Remapper (transformLayers in the instances
   memo).  Coordinates are integers; the rectangles, scales and offsets of
   the inputs are chosen so that every quotient of the code is exact. *)

\* MAX_BOUNDARY_VIOLATION_PERCENT = 0.03, in hundredths
MAX_BOUNDARY_VIOLATION_PERCENT == 3

Min(a, b) == IF a <= b THEN a ELSE b

Rect(x, y, w, h) == [x |-> x, y |-> y, w |-> w, h |-> h]

\* the scale that fits the width only
GlobalScaleByWidth(sourceRect, targetRect, strategy) ==
    IF strategy # {} THEN Val(strategy).suggestedScale
    ELSE targetRect.w \div sourceRect.w

\* let scale = Math.min(ratioX, ratioY); if (strategy) scale = strategy.suggestedScale
GlobalScale(sourceRect, targetRect, strategy) ==
    IF strategy # {} THEN Val(strategy).suggestedScale
    ELSE Min(targetRect.w \div sourceRect.w, targetRect.h \div sourceRect.h)

\* anchorX = targetRect.x + (targetRect.w - scaledW) / 2
AnchorX(sourceRect, targetRect, strategy) ==
    targetRect.x
      + (targetRect.w - sourceRect.w * GlobalScale(sourceRect, targetRect, strategy)) \div 2

\* anchorY by strategy.anchor; centred without strategy
AnchorY(sourceRect, targetRect, strategy) ==
    LET scaledH == sourceRect.h * GlobalScale(sourceRect, targetRect, strategy)
    IN  IF strategy # {} /\ Val(strategy).anchor = "TOP" THEN targetRect.y
        ELSE IF strategy # {} /\ Val(strategy).anchor = "BOTTOM"
             THEN targetRect.y + (targetRect.h - scaledH)
        ELSE targetRect.y + (targetRect.h - scaledH) \div 2

\* strategy?.overrides?.find(o => o.layerId === layer.id); {} for undefined
FindOverride(strategy, layerId) ==
    IF strategy = {} THEN {}
    ELSE IF Val(strategy).overrides = {} THEN {}
    ELSE LET overrides == Val(Val(strategy).overrides)
             hits == {i \in DOMAIN overrides : overrides[i].layerId = layerId}
         IN  IF hits = {} THEN {}
             ELSE {overrides[CHOOSE i \in hits : \A j \in hits : i <= j]}

\* the clamp that only holds finalY below the lower edge of the band
ClampYUpperOnly(finalY, targetRect) ==
    LET bleedY == (targetRect.h * MAX_BOUNDARY_VIOLATION_PERCENT) \div 100
        maxY == targetRect.y + targetRect.h + bleedY
    IN  Min(finalY, maxY)

\* finalY = Math.max(minY, Math.min(finalY, maxY))
ClampY(finalY, targetRect) ==
    LET bleedY == (targetRect.h * MAX_BOUNDARY_VIOLATION_PERCENT) \div 100
        minY == targetRect.y - bleedY
        maxY == targetRect.y + targetRect.h + bleedY
    IN  IF minY >= Min(finalY, maxY) THEN minY ELSE Min(finalY, maxY)

\* a transformed layer
TransformedLayer(layer, finalX, finalY, layerScaleX, layerScaleY, children) ==
    [id |-> layer.id,
     type |-> layer.type,
     coords |-> Rect(finalX, finalY, layer.coords.w * layerScaleX,
                     layer.coords.h * layerScaleY),
     transform |-> [scaleX |-> layerScaleX, scaleY |-> layerScaleY,
                    offsetX |-> finalX, offsetY |-> finalY],
     children |-> children]

\* the body of the map with an override that is added to the projection
PlacedAdding(layer, in, parentDeltaX, parentDeltaY, children) ==
    LET scale == GlobalScale(in.sourceRect, in.targetRect, in.strategy)
        geomX == AnchorX(in.sourceRect, in.targetRect, in.strategy)
                   + ((layer.coords.x - in.sourceRect.x) * (in.sourceRect.w * scale))
                        \div in.sourceRect.w
        geomY == AnchorY(in.sourceRect, in.targetRect, in.strategy)
                   + ((layer.coords.y - in.sourceRect.y) * (in.sourceRect.h * scale))
                        \div in.sourceRect.h
        override == FindOverride(in.strategy, layer.id)
    IN  IF override # {}
        THEN TransformedLayer(layer, geomX + Val(override).xOffset,
                              ClampY(geomY + Val(override).yOffset, in.targetRect),
                              scale * Val(override).individualScale,
                              scale * Val(override).individualScale, children)
        ELSE TransformedLayer(layer, geomX + parentDeltaX,
                              ClampY(geomY + parentDeltaY, in.targetRect),
                              scale, scale, children)

\* the body of the map of transformLayers for one layer, its children done
Placed(layer, in, parentDeltaX, parentDeltaY, children) ==
    LET scale == GlobalScale(in.sourceRect, in.targetRect, in.strategy)
        geomX == AnchorX(in.sourceRect, in.targetRect, in.strategy)
                   + ((layer.coords.x - in.sourceRect.x) * (in.sourceRect.w * scale))
                        \div in.sourceRect.w
        geomY == AnchorY(in.sourceRect, in.targetRect, in.strategy)
                   + ((layer.coords.y - in.sourceRect.y) * (in.sourceRect.h * scale))
                        \div in.sourceRect.h
        override == FindOverride(in.strategy, layer.id)
    IN  IF override # {}
        THEN TransformedLayer(layer, in.targetRect.x + Val(override).xOffset,
                              ClampY(in.targetRect.y + Val(override).yOffset,
                                     in.targetRect),
                              scale * Val(override).individualScale,
                              scale * Val(override).individualScale, children)
        ELSE TransformedLayer(layer, geomX + parentDeltaX,
                              ClampY(geomY + parentDeltaY, in.targetRect),
                              scale, scale, children)

RECURSIVE transformLayers(_, _, _, _)
transformLayers(layers, in, parentDeltaX, parentDeltaY) ==
    [i \in DOMAIN layers |->
        Placed(layers[i], in, parentDeltaX, parentDeltaY,
               transformLayers(layers[i].children, in, parentDeltaX, parentDeltaY))]

\* the source layers: id (a path, as a sequence of characters), type, coords
\* and children (<<>> for a layer)
SourceLayer(id, coords, children) ==
    [id |-> id, type |-> IF children # <<>> THEN "group" ELSE "layer",
     coords |-> coords, children |-> children]

LayerTrees ==
    { <<SourceLayer(<<"0">>, Rect(10, 10, 20, 10), <<>>)>>,
      <<SourceLayer(<<"0">>, Rect(10, 10, 40, 40),
                    <<SourceLayer(<<"0", ".", "0">>, Rect(30, 40, 20, 10), <<>>)>>),
        SourceLayer(<<"1">>, Rect(10, 400, 20, 10), <<>>)>>,
      <<SourceLayer(<<"0">>, Rect(60, 0 - 300, 20, 10), <<>>),
        SourceLayer(<<"1">>, Rect(10, 10, 20, 10), <<>>)>> }

LayerOverride(layerId, xOffset, yOffset, individualScale) ==
    [layerId |-> layerId, xOffset |-> xOffset, yOffset |-> yOffset,
     individualScale |-> individualScale]

OverrideLists ==
    { {}, {<<>>},
      {<<LayerOverride(<<"0">>, 5, 5, 2)>>},
      {<<LayerOverride(<<"0">>, 7, 150, 1)>>},
      {<<LayerOverride(<<"0">>, 5, 5, 2), LayerOverride(<<"0">>, 7, 150, 1)>>},
      {<<LayerOverride(<<"0", ".", "0">>, 5, 0 - 50, 2)>>},
      {<<LayerOverride(<<"0", ".", "0">>, 5, 0 - 50, 2),
         LayerOverride(<<"0">>, 5, 5, 2)>>} }

\* const isConfirmed = !!currentPrompt && currentPrompt === confirmedPrompt;
\* currentPrompt is sourceData.aiStrategy?.generativePrompt, "" when falsy
isConfirmedPrompt(in) ==
    /\ in.strategy # {}
    /\ Val(in.strategy).generativePrompt # ""
    /\ in.confirmedPrompt = {Val(in.strategy).generativePrompt}

\* status: awaiting_confirmation for an unconfirmed prompt under explicit
\* intent or a scale above scaleThreshold = 2.0
payloadStatus(in) ==
    IF /\ in.strategy # {}
       /\ Val(in.strategy).generativePrompt # ""
       /\ ~isConfirmedPrompt(in)
       /\ \/ Val(in.strategy).isExplicitIntent
          \/ GlobalScale(in.sourceRect, in.targetRect, in.strategy) > 2
    THEN "awaiting_confirmation"
    ELSE "success"

\* the layers of the payload with the generative layer pushed last
payloadLayersGenLast(in, transformed) ==
    IF isConfirmedPrompt(in)
    THEN transformed \o
         <<[id |-> <<"g", "e", "n", "-", "l", "a", "y", "e", "r", "-">>
                     \o (IF in.name = <<>> THEN <<"u", "n", "k", "n", "o", "w", "n">>
                         ELSE in.name),
            type |-> "generative",
            coords |-> in.targetRect,
            transform |-> [scaleX |-> 1, scaleY |-> 1,
                           offsetX |-> in.targetRect.x, offsetY |-> in.targetRect.y],
            children |-> <<>>]>>
    ELSE transformed

\* the layers of the payload: transformedLayers.unshift(genLayer) when
\* requiresGeneration; the id is `gen-layer-${sourceData.name || 'unknown'}`
payloadLayers(in, transformed) ==
    IF isConfirmedPrompt(in)
    THEN <<[id |-> <<"g", "e", "n", "-", "l", "a", "y", "e", "r", "-">>
                     \o (IF in.name = <<>> THEN <<"u", "n", "k", "n", "o", "w", "n">>
                         ELSE in.name),
            type |-> "generative",
            coords |-> in.targetRect,
            transform |-> [scaleX |-> 1, scaleY |-> 1,
                           offsetX |-> in.targetRect.x, offsetY |-> in.targetRect.y],
            children |-> <<>>]>>
         \o transformed
    ELSE transformed

\* the payload of the instance, without what it copies from the store
\* (previewUrl, generationId, isSynthesizing) and the gate
computePayload(in) ==
    [status |-> payloadStatus(in),
     sourceContainer |-> in.name,
     layers |-> payloadLayers(in, transformLayers(in.layers, in, 0, 0)),
     scaleFactor |-> GlobalScale(in.sourceRect, in.targetRect, in.strategy),
     metrics |-> [source |-> [w |-> in.sourceRect.w, h |-> in.sourceRect.h],
                  target |-> [w |-> in.targetRect.w, h |-> in.targetRect.h]],
     requiresGeneration |-> isConfirmedPrompt(in),
     isConfirmed |-> isConfirmedPrompt(in),
     isTransient |-> ~isConfirmedPrompt(in)]

\* the instances memo computes transformLayers(sourceData.layers) and the
\* payload around it
computeTransform ==
    /\ transformInput # {}
    /\ transformedLayers = {}
    /\ transformedLayers' =
          {transformLayers(Val(transformInput).layers, Val(transformInput), 0, 0)}
    /\ instancePayload' = {computePayload(Val(transformInput))}
    /\ UNCHANGED <<storeVars, last, remapperVars, resolverVars, extractorVars,
                   transformInput, nodeVars>>

InitTransform ==
    /\ StoreInit
    /\ RemapperInit
    /\ apiKey = TRUE
    /\ ResolverIdle
    /\ ExtractorIdle
    /\ transformInput \in
          {{[sourceRect |-> s, targetRect |-> t, strategy |-> st, layers |-> ls,
             name |-> <<"S">>, confirmedPrompt |-> cp]} :
              s \in {Rect(0, 0, 100, 100), Rect(10, 20, 50, 50)},
              t \in {Rect(0, 0, 100, 100), Rect(20, 40, 200, 100),
                     Rect(0, 0, 100, 200)},
              st \in {{}} \cup
                     {{[suggestedScale |-> sc, anchor |-> a, overrides |-> o,
                        generativePrompt |-> gp[1], isExplicitIntent |-> gp[2]]} :
                         sc \in {1, 2, 3}, a \in {"TOP", "CENTER", "BOTTOM"},
                         o \in OverrideLists,
                         gp \in {<<"", FALSE>>, <<"", TRUE>>, <<"p1", FALSE>>,
                                 <<"p1", TRUE>>}},
              ls \in LayerTrees,
              cp \in {{}, {"p1"}, {"p0"}}}
    /\ transformedLayers = {}
    /\ instancePayload = {}
    /\ NodesIdle

NextTransform == computeTransform

SpecTransform == InitTransform /\ [][NextTransform]_vars

-----------------------------------------------------------------------------
(* Part 7: the path ids (getCleanLayerTree, findLayerByPath).  A layer of the
   parsed document is a record of ref, name, the four edges and children;
   ref stands for the identity of the object, name and edges are {} when
   undefined, children is {} for a layer without a children array.  Ids are
   sequences of characters. *)

\* the name of the template group
TemplateName == <<"!", "!", "T", "E", "M", "P", "L", "A", "T", "E">>

\* getCleanLayerTree that numbers the layers it keeps
RECURSIVE getCleanLayerTreeDense(_, _)
getCleanLayerTreeDense(layers, path) ==
    LET kept == SelectSeq([i \in DOMAIN layers |-> i],
                          LAMBDA i : layers[i].name # {TemplateName})
        currentPath(k) ==
            IF path # <<>> THEN path \o <<".">> \o Decimal(k - 1) ELSE Decimal(k - 1)
    IN  [k \in DOMAIN kept |->
            LET child == layers[kept[k]]
            IN  [id |-> currentPath(k),
                 name |-> IF child.name \in {{}, {<<>>}}
                          THEN <<"L", "a", "y", "e", "r", " ">> \o Decimal(kept[k] - 1)
                          ELSE Val(child.name),
                 type |-> IF child.children # {} THEN "group" ELSE "layer",
                 coords |-> Rect(OrZero(child.left), OrZero(child.top),
                                 OrZero(child.right) - OrZero(child.left),
                                 OrZero(child.bottom) - OrZero(child.top)),
                 children |-> IF child.children # {}
                              THEN getCleanLayerTreeDense(Val(child.children),
                                                          currentPath(k))
                              ELSE <<>>]]

\* getCleanLayerTree: the children named !!TEMPLATE are left out, the index
\* of a child is its index in the full array
RECURSIVE getCleanLayerTree(_, _)
getCleanLayerTree(layers, path) ==
    LET kept == SelectSeq([i \in DOMAIN layers |-> i],
                          LAMBDA i : layers[i].name # {TemplateName})
        currentPath(k) ==
            IF path # <<>> THEN path \o <<".">> \o Decimal(kept[k] - 1)
            ELSE Decimal(kept[k] - 1)
    IN  [k \in DOMAIN kept |->
            LET child == layers[kept[k]]
            IN  [id |-> currentPath(k),
                 name |-> IF child.name \in {{}, {<<>>}}
                          THEN <<"L", "a", "y", "e", "r", " ">> \o Decimal(kept[k] - 1)
                          ELSE Val(child.name),
                 type |-> IF child.children # {} THEN "group" ELSE "layer",
                 coords |-> Rect(OrZero(child.left), OrZero(child.top),
                                 OrZero(child.right) - OrZero(child.left),
                                 OrZero(child.bottom) - OrZero(child.top)),
                 children |-> IF child.children # {}
                              THEN getCleanLayerTree(Val(child.children), currentPath(k))
                              ELSE <<>>]]

\* pathId.split('.')
RECURSIVE split(_)
split(str) ==
    IF \A i \in DOMAIN str : str[i] # "."
    THEN <<str>>
    ELSE LET dot == CHOOSE i \in DOMAIN str :
                       str[i] = "." /\ \A j \in 1 .. (i - 1) : str[j] # "."
         IN  <<SubSeq(str, 1, dot - 1)>> \o split(SubSeq(str, dot + 1, Len(str)))

\* Number(str) for the strings of the model: the value of a run of decimal
\* digits, 0 for the empty string, NaN (here -1) for any other
RECURSIVE Number(_)
Number(str) ==
    LET digits == <<"0", "1", "2", "3", "4", "5", "6", "7", "8", "9">>
        value(c) == CHOOSE v \in 0 .. 9 : digits[v + 1] = c
    IN  IF str = <<>> THEN 0
        ELSE IF \E i \in DOMAIN str : \A v \in 1 .. 10 : digits[v] # str[i] THEN 0 - 1
        ELSE 10 * Number(SubSeq(str, 1, Len(str) - 1)) + value(str[Len(str)])

\* the loop of findLayerByPath from the layers and the layer reached so far
RECURSIVE DescendPath(_, _, _)
DescendPath(currentLayers, targetLayer, indices) ==
    IF indices = <<>> THEN targetLayer
    ELSE IF \/ currentLayers = {}
            \/ Head(indices) < 0
            \/ Head(indices) >= Len(Val(currentLayers))
         THEN {}
    ELSE DescendPath(Val(currentLayers)[Head(indices) + 1].children,
                     {Val(currentLayers)[Head(indices) + 1]}, Tail(indices))

\* findLayerByPath; {} for null
findLayerByPath(document, pathId) ==
    IF pathId = <<>> THEN {}
    ELSE DescendPath(document.children, {},
                     [i \in DOMAIN split(pathId) |-> Number(split(pathId)[i])])

\* forests of n layers of a parsed document: named or not, the template name
\* included, a layer or a group (children defined, possibly empty)
RECURSIVE RawForests(_)
RawForests(n) ==
    IF n = 0 THEN {<<>>}
    ELSE UNION { { <<[ref |-> <<>>, name |-> name,
                      top |-> {10}, left |-> {20}, bottom |-> {40}, right |-> {60},
                      children |-> IF kids # <<>> THEN {kids} ELSE c]>> \o rest :
                     name \in {{}, {<<"A">>}, {TemplateName}}, c \in {{}, {<<>>}},
                     kids \in RawForests(j), rest \in RawForests(n - 1 - j) } :
                 j \in 0 .. (n - 1) }

\* the layers of a forest as distinct objects: ref is the position
RECURSIVE WithRefs(_, _)
WithRefs(layers, path) ==
    [index \in DOMAIN layers |->
        [layers[index] EXCEPT
            !.ref = Append(path, index),
            !.children = IF @ = {} THEN {}
                         ELSE {WithRefs(Val(@), Append(path, index))}]]

\* LoadPSDNode: designLayers = parsedPsd.children ? getCleanLayerTree(...) : []
buildDesignLayers ==
    /\ parsedPsd # {}
    /\ designLayers = {}
    /\ designLayers' =
          {IF Val(parsedPsd).children # {}
           THEN getCleanLayerTree(Val(Val(parsedPsd).children), <<>>)
           ELSE <<>>}
    /\ UNCHANGED <<storeVars, last, remapperVars, resolverVars, parsedPsd,
                   templateMetadata, transformVars, nodeVars>>

\* a Remapper instance transforms the design layers into a 100x100 target
remapDesignLayers ==
    /\ designLayers # {}
    /\ transformInput = {}
    /\ \E name \in {<<>>, <<"1">>}, cp \in {{}, {"p1"}} :
          \E in \in {[sourceRect |-> Rect(0, 0, 100, 100),
                      targetRect |-> Rect(0, 0, 100, 100),
                      strategy |-> {[suggestedScale |-> 1, anchor |-> "CENTER",
                                     overrides |-> {}, generativePrompt |-> "p1",
                                     isExplicitIntent |-> FALSE]},
                      layers |-> Val(designLayers), name |-> name,
                      confirmedPrompt |-> cp]} :
             /\ transformInput' = {in}
             /\ transformedLayers' = {transformLayers(in.layers, in, 0, 0)}
             /\ instancePayload' = {computePayload(in)}
    /\ UNCHANGED <<storeVars, last, remapperVars, resolverVars, extractorVars,
                   nodeVars>>

InitLayerPaths ==
    /\ StoreInit
    /\ RemapperInit
    /\ apiKey = TRUE
    /\ ResolverIdle
    /\ parsedPsd \in
          {{[children |-> {}]}}
          \cup UNION { {{[children |-> {WithRefs(f, <<>>)}]} : f \in RawForests(n)} :
                       n \in 0 .. MaxNodes }
    /\ templateMetadata = {}
    /\ designLayers = {}
    /\ TransformIdle
    /\ NodesIdle

NextLayerPaths == buildDesignLayers \/ remapDesignLayers

SpecLayerPaths == InitLayerPaths /\ [][NextLayerPaths]_vars

-----------------------------------------------------------------------------
(* Part 8: the Export node (src/components/ExportPSDNode.tsx).  Container
   names and target handles are sequences of characters; an edge is a record
   of source, sourceHandle, target and targetHandle.  A canvas is a record
   that tells which call drew it. *)

\* str.replace(pattern, ''): the first occurrence of the pattern is removed
replace(str, pattern) ==
    LET at == {i \in 1 .. (Len(str) - Len(pattern) + 1) :
                  SubSeq(str, i, i + Len(pattern) - 1) = pattern}
    IN  IF at = {} THEN str
        ELSE LET i == CHOOSE i \in at : \A j \in at : i <= j
             IN  SubSeq(str, 1, i - 1) \o SubSeq(str, i + Len(pattern), Len(str))

\* the templateMetadata memo: the template registered by the source of the
\* first edge into template-input; {} for null or undefined
exportTemplate ==
    LET found == SelectSeq(exportEdges,
                           LAMBDA e : /\ e.target = "export"
                                      /\ e.targetHandle =
                                            <<"t", "e", "m", "p", "l", "a", "t", "e",
                                              "-", "i", "n", "p", "u", "t">>)
    IN  IF found = <<>> THEN {} ELSE Opt(templateRegistry, Head(found).source)

\* templateMetadata?.containers || []
exportContainers == IF exportTemplate = {} THEN <<>> ELSE Val(exportTemplate).containers

\* the payload an edge brings to a slot: the payload registry first, then the
\* adapter over the resolved registry; {} for undefined
edgePayload(edge, slotName) ==
    LET payload == Stored(payloadRegistry, edge.source, edge.sourceHandle)
        context == Stored(resolvedRegistry, edge.source, edge.sourceHandle)
    IN  IF payload # {} THEN payload
        ELSE IF context = {} THEN {}
        ELSE LET c == Val(context)
                 normalizedLayers ==
                     [i \in DOMAIN c.layers |->
                         Set(c.layers[i], "transform",
                             {[scaleX |-> 1, scaleY |-> 1,
                               offsetX |-> c.layers[i].coords.x,
                               offsetY |-> c.layers[i].coords.y]})]
                 genLayer ==
                     [id |-> <<"d", "r", "a", "f", "t", "-", "g", "e", "n", "-">>
                             \o slotName,
                      name |-> <<"A", "I">>,
                      type |-> "generative",
                      coords |-> c.container.bounds,
                      transform |-> [scaleX |-> 1, scaleY |-> 1,
                                     offsetX |-> c.container.bounds.x,
                                     offsetY |-> c.container.bounds.y],
                      generativePrompt |-> "Draft Reconstruction",
                      children |-> <<>>]
             IN  {Set([status |-> "success",
                       sourceNodeId |-> edge.source,
                       sourceContainer |-> c.container.containerName,
                       targetContainer |-> slotName,
                       layers |-> IF TruthyStr(Opt(c, "previewUrl"))
                                  THEN <<genLayer>> \o normalizedLayers
                                  ELSE normalizedLayers,
                       scaleFactor |-> 1,
                       metrics |-> [source |-> [w |-> 0, h |-> 0],
                                    target |-> [w |-> 0, h |-> 0]],
                       isConfirmed |-> TRUE,
                       isTransient |-> FALSE],
                      "previewUrl", Opt(c, "previewUrl"))}

\* the slotConnections memo from the edges left to visit: the map and the
\* errors collected so far are in acc
RECURSIVE slotMemo(_, _)
slotMemo(edges, acc) ==
    IF edges = <<>> THEN acc
    ELSE LET edge == Head(edges)
             prefix == <<"i", "n", "p", "u", "t", "-">>
         IN  IF \/ edge.target # "export"
                \/ Len(edge.targetHandle) < Len(prefix)
                \/ SubSeq(edge.targetHandle, 1, Len(prefix)) # prefix
             THEN slotMemo(Tail(edges), acc)
             ELSE LET slotName == replace(edge.targetHandle, prefix)
                      payload == edgePayload(edge, slotName)
                  IN  slotMemo(Tail(edges),
                         IF payload = {} THEN acc
                         ELSE IF \/ OptCur(payload, "targetContainer") = {slotName}
                                 \/ OptCur(payload, "sourceNodeId") = {edge.source}
                         THEN [slotConnections |->
                                   (slotName :> Val(payload)) @@ acc.slotConnections,
                               validationErrors |->
                                   acc.validationErrors \o
                                   (IF Val(payload).status = "error"
                                    THEN <<[error |-> "upstream", slot |-> slotName]>>
                                    ELSE <<>>)]
                         ELSE [acc EXCEPT
                                  !.validationErrors =
                                      Append(@, [error |-> "miswired",
                                                 slot |-> slotName])])

\* slotConnections and validationErrors of the current render
slotConnections ==
    slotMemo(exportEdges, [slotConnections |-> <<>>,
                           validationErrors |-> <<>>]).slotConnections
validationErrors ==
    slotMemo(exportEdges, [slotConnections |-> <<>>,
                           validationErrors |-> <<>>]).validationErrors

\* isTemplateReady && filledSlots > 0 && validationErrors.length === 0
isExportReady ==
    /\ exportTemplate # {}
    /\ Cardinality(DOMAIN slotConnections) > 0
    /\ Len(validationErrors) = 0

\* findGenerativeLayers: the tasks pushed for the layers of one payload, in
\* the order of the scan
RECURSIVE findGenerativeLayers(_, _)
findGenerativeLayers(layers, payload) ==
    IF layers = <<>> THEN <<>>
    ELSE LET layer == Head(layers)
             task ==
                 IF /\ layer.type = "generative"
                    /\ TruthyStr(Opt(layer, "generativePrompt"))
                    /\ TruthyBool(Opt(payload, "isConfirmed"))
                 THEN <<[id |-> layer.id,
                         canvas |->
                             IF TruthyStr(Opt(payload, "previewUrl"))
                             THEN [by |-> "base64ToCanvas",
                                   from |-> payload.previewUrl,
                                   w |-> layer.coords.w, h |-> layer.coords.h]
                             ELSE [by |-> "generateLayerImage",
                                   from |-> layer.generativePrompt,
                                   w |-> layer.coords.w, h |-> layer.coords.h],
                         pending |-> TRUE]>>
                 ELSE <<>>
         IN  task \o findGenerativeLayers(layer.children, payload)
                  \o findGenerativeLayers(Tail(layers), payload)

\* the synthesis phase: the tasks of the payloads of the containers, in order
RECURSIVE synthesisTasks(_, _)
synthesisTasks(containers, slots) ==
    IF containers = <<>> THEN <<>>
    ELSE LET payload == Opt(slots, Head(containers).name)
         IN  (IF payload # {} /\ Has(Val(payload), "layers")
              THEN findGenerativeLayers(Val(payload).layers, Val(payload))
              ELSE <<>>)
             \o synthesisTasks(Tail(containers), slots)

\* reconstructHierarchy; sourcePsd is {} for undefined, assets is the Map
RECURSIVE reconstructHierarchy(_, _, _)
reconstructHierarchy(layers, sourcePsd, assets) ==
    IF layers = <<>> THEN <<>>
    ELSE LET metaLayer == Head(layers)
             originalLayer ==
                 IF sourcePsd = {} THEN {}
                 ELSE findLayerByPath(Val(sourcePsd), metaLayer.id)
             newLayer ==
                 IF metaLayer.type = "generative"
                 THEN IF Has(assets, metaLayer.id)
                      THEN {[name |-> {metaLayer.name},
                             top |-> {metaLayer.coords.y},
                             left |-> {metaLayer.coords.x},
                             bottom |-> {metaLayer.coords.y + metaLayer.coords.h},
                             right |-> {metaLayer.coords.x + metaLayer.coords.w},
                             canvas |-> assets[metaLayer.id]]}
                      ELSE {}
                 ELSE IF originalLayer = {} THEN {}
                 ELSE {[Val(originalLayer) EXCEPT
                           !.top = {metaLayer.coords.y},
                           !.left = {metaLayer.coords.x},
                           !.bottom = {metaLayer.coords.y + metaLayer.coords.h},
                           !.right = {metaLayer.coords.x + metaLayer.coords.w},
                           !.children =
                               IF metaLayer.type = "group"
                               THEN {reconstructHierarchy(metaLayer.children,
                                                          sourcePsd, assets)}
                               ELSE {}]}
         IN  (IF newLayer = {} THEN <<>> ELSE <<Val(newLayer)>>)
             \o reconstructHierarchy(Tail(layers), sourcePsd, assets)

\* the assembly phase with the groups named after container.name
RECURSIVE finalChildrenByName(_, _, _)
finalChildrenByName(containers, slots, assets) ==
    IF containers = <<>> THEN <<>>
    ELSE LET container == Head(containers)
             payload == Opt(slots, container.name)
         IN  (IF payload = {} THEN <<>>
              ELSE <<[name |-> container.name,
                      children |->
                          reconstructHierarchy(
                              Val(payload).layers,
                              Opt(psdRegistry, Val(payload).sourceNodeId), assets),
                      opened |-> TRUE,
                      top |-> container.bounds.y,
                      left |-> container.bounds.x,
                      bottom |-> container.bounds.y + container.bounds.h,
                      right |-> container.bounds.x + container.bounds.w]>>)
             \o finalChildrenByName(Tail(containers), slots, assets)

\* the assembly phase: one group for every container that has a payload
RECURSIVE finalChildren(_, _, _)
finalChildren(containers, slots, assets) ==
    IF containers = <<>> THEN <<>>
    ELSE LET container == Head(containers)
             payload == Opt(slots, container.name)
         IN  (IF payload = {} THEN <<>>
              ELSE <<[name |-> container.originalName,
                      children |->
                          reconstructHierarchy(
                              Val(payload).layers,
                              Opt(psdRegistry, Val(payload).sourceNodeId), assets),
                      opened |-> TRUE,
                      top |-> container.bounds.y,
                      left |-> container.bounds.x,
                      bottom |-> container.bounds.y + container.bounds.h,
                      right |-> container.bounds.x + container.bounds.w]>>)
             \o finalChildren(Tail(containers), slots, assets)

\* handleExport up to its first await: Promise.all of the generation tasks
\* or, without tasks, writePsdFile
handleExport ==
    /\ ~isExporting
    /\ exportTemplate # {}
    /\ isExportReady
    /\ \E closure \in {[template |-> Val(exportTemplate),
                        slotConnections |-> slotConnections]} :
          \E tasks \in {synthesisTasks(closure.template.containers,
                                       closure.slotConnections)} :
             /\ isExporting' = TRUE
             /\ exportError' = {}
             /\ exportClosure' = {closure}
             /\ generationTasks' = tasks
             /\ generatedAssets' = <<>>
             /\ newPsd' = IF tasks # <<>> THEN {}
                          ELSE {[width |-> closure.template.canvas.width,
                                 height |-> closure.template.canvas.height,
                                 children |->
                                     finalChildren(closure.template.containers,
                                                   closure.slotConnections, <<>>)]}
    /\ UNCHANGED <<exportRest, exportEdges>>

\* a generation task settles: the canvas is stored under the id of the layer
\* unless base64ToCanvas or generateLayerImage gave null
taskSettles(i) ==
    /\ isExporting
    /\ generationTasks[i].pending
    /\ generationTasks' = [generationTasks EXCEPT ![i].pending = FALSE]
    /\ \E canvas \in {{}, {generationTasks[i].canvas}} :
          generatedAssets' =
              IF canvas = {} THEN generatedAssets
              ELSE (generationTasks[i].id :> Val(canvas)) @@ generatedAssets
    /\ UNCHANGED <<exportRest, exportEdges, isExporting, exportError,
                   exportClosure, newPsd>>

\* Promise.all has resolved: the assembly phase, up to the await of writePsdFile
assemble ==
    /\ isExporting
    /\ generationTasks # <<>>
    /\ \A i \in DOMAIN generationTasks : ~generationTasks[i].pending
    /\ newPsd = {}
    /\ newPsd' = {[width |-> Val(exportClosure).template.canvas.width,
                   height |-> Val(exportClosure).template.canvas.height,
                   children |->
                       finalChildren(Val(exportClosure).template.containers,
                                     Val(exportClosure).slotConnections,
                                     generatedAssets)]}
    /\ UNCHANGED <<exportRest, exportEdges, isExporting, exportError,
                   exportClosure, generationTasks, generatedAssets>>

\* writePsdFile settles: the file is written or writePsd throws
writeSettles ==
    /\ isExporting
    /\ newPsd # {}
    /\ isExporting' = FALSE
    /\ exportClosure' = {}
    /\ \E error \in {{}, {"Failed to construct PSD binary."}} : exportError' = error
    /\ UNCHANGED <<exportRest, exportEdges, generationTasks, generatedAssets,
                   newPsd>>

\* a transformed layer of a payload
MetaLayer(id, type, children) ==
    [id |-> id, name |-> <<"L">>, type |-> type, coords |-> Rect(1, 2, 3, 4),
     children |-> children]

\* the payloads a Remapper has stored for the instance that targets `target',
\* all remapped from the source container S of the loader: confirmed with and
\* without a preview, a draft that is not confirmed over the layers of a
\* confirmed one, no generative layer, an error
ExportPayloads(target, url) ==
    LET gen == Set(MetaLayer(<<"g", "e", "n", "-", "l", "a", "y", "e", "r", "-", "S">>,
                             "generative", <<>>),
                   "generativePrompt", {"p1"})
        plain == <<MetaLayer(<<"0">>, "group", <<MetaLayer(<<"0", ".", "0">>, "layer", <<>>)>>),
                   MetaLayer(<<"5">>, "layer", <<>>)>>
        base == [status |-> "success", sourceNodeId |-> "loader",
                 sourceContainer |-> <<"S">>, targetContainer |-> target,
                 layers |-> plain]
    IN  {Spread(base, [layers |-> <<gen>> \o plain, isConfirmed |-> TRUE,
                       previewUrl |-> url]),
         Spread(base, [layers |-> <<gen>> \o plain, isConfirmed |-> TRUE]),
         Spread(base, [layers |-> <<gen>> \o plain, isConfirmed |-> FALSE,
                       previewUrl |-> url]),
         base,
         Spread(base, [status |-> "error", isConfirmed |-> FALSE])}

\* the graph around the Export node: a template of the containers !!A and B,
\* a Remapper with two instances, a Design Analyst, the loader of the source
InitExport ==
    /\ RemapperInit
    /\ apiKey = TRUE
    /\ ResolverIdle
    /\ ExtractorIdle
    /\ TransformIdle
    /\ analysisRegistry = <<>>
    /\ knowledgeRegistry = <<>>
    /\ globalVersion = 0
    /\ last = NoCall
    /\ psdRegistry =
          ("loader" :>
              [children |->
                  {WithRefs(<<[ref |-> <<>>, name |-> {<<"G">>},
                               top |-> {10}, left |-> {20}, bottom |-> {40},
                               right |-> {60},
                               children |->
                                   {<<[ref |-> <<>>, name |-> {<<"A">>},
                                       top |-> {10}, left |-> {20}, bottom |-> {40},
                                       right |-> {60}, children |-> {}]>>}]>>,
                            <<>>)}])
    /\ templateRegistry \in
          {<<>>,
           ("target" :>
               [canvas |-> [width |-> 100, height |-> 100],
                containers |->
                    <<[name |-> <<"A">>, originalName |-> <<"!", "!", "A">>,
                       bounds |-> Rect(0, 0, 100, 50)],
                      [name |-> <<"B">>, originalName |-> <<"B">>,
                       bounds |-> Rect(0, 50, 100, 50)]>>])}
    /\ payloadRegistry \in
          {("remapper" :> (p0 @@ p1)) :
              p0 \in {<<>>} \cup {("result-out-0" :> p) :
                                    p \in ExportPayloads(<<"A">>, "u0")},
              p1 \in {<<>>} \cup {("result-out-1" :> p) :
                                    p \in ExportPayloads(<<"B">>, "u1")}}
    /\ resolvedRegistry \in
          {("analyst" :> c) :
              c \in {<<>>} \cup
                    {("source-out-0" :>
                         Set([container |-> [containerName |-> <<"S">>,
                                             bounds |-> Rect(0, 0, 50, 50)],
                              layers |-> <<MetaLayer(<<"0">>, "layer", <<>>)>>,
                              status |-> "resolved"],
                             "previewUrl", url)) : url \in {{}, {"u2"}}}}
    /\ exportEdges \in
          {t \o a \o b \o
           <<[source |-> "analyst", sourceHandle |-> "source-out-0",
              target |-> "preview",
              targetHandle |-> <<"i", "n", "p", "u", "t", "-", "A">>]>> :
              t \in {<<>>,
                     <<[source |-> "target", sourceHandle |-> "target-out",
                        target |-> "export",
                        targetHandle |-> <<"t", "e", "m", "p", "l", "a", "t", "e",
                                           "-", "i", "n", "p", "u", "t">>]>>},
              a \in {<<>>} \cup
                    {<<[source |-> from[1], sourceHandle |-> from[2],
                        target |-> "export",
                        targetHandle |-> <<"i", "n", "p", "u", "t", "-", "A">>]>> :
                        from \in {<<"remapper", "result-out-0">>,
                                  <<"remapper", "result-out-1">>,
                                  <<"analyst", "source-out-0">>}},
              b \in {<<>>} \cup
                    {<<[source |-> from[1], sourceHandle |-> from[2],
                        target |-> "export",
                        targetHandle |-> <<"i", "n", "p", "u", "t", "-", "B">>]>> :
                        from \in {<<"remapper", "result-out-0">>,
                                  <<"remapper", "result-out-1">>,
                                  <<"analyst", "source-out-0">>}}}
    /\ isExporting = FALSE
    /\ exportError = {}
    /\ exportClosure = {}
    /\ generationTasks = <<>>
    /\ generatedAssets = <<>>
    /\ newPsd = {}
    /\ LoaderIdle
    /\ ProjectIdle
    /\ AnalystIdle
    /\ EditorIdle
    /\ ChannelsIdle

NextExport ==
    \/ handleExport
    \/ \E i \in DOMAIN generationTasks : taskSettles(i)
    \/ assemble
    \/ writeSettles

SpecExport == InitExport /\ [][NextExport]_vars

-----------------------------------------------------------------------------
(* Part 9: the loader node (src/components/LoadPSDNode.tsx, parsePsdFile).
   A file is a record of its name, its byteLength and what readPsd does with
   its bytes: [psd |-> document] or [throws |-> error], error being {} for a
   value that is no Error and {message} for an Error.  The validation report
   written to the node data next to the template is not modelled. *)

\* number of files chosen
MaxFiles == 2

\* how the promise of parsePsdFile settles; io is {} when the FileReader
\* loads the file and {reader.error} when it fails, reader.error being {}
\* for null and {message} else.  The messages readPsd throws are whole
\* phrases, so message.includes(phrase) is equality with one of them.
parsePsdFile(file, io) ==
    IF io # {}
    THEN [ok |-> FALSE,
          message |-> "Failed to read file from disk: "
                      \o (IF Val(io) = {} THEN "Unknown IO error" ELSE Val(Val(io)))]
    ELSE IF file.byteLength = 0
    THEN [ok |-> FALSE, message |-> "The provided file is empty."]
    ELSE IF Has(file.readPsd, "psd")
    THEN [ok |-> TRUE, psd |-> file.readPsd.psd]
    ELSE LET error == file.readPsd.throws
         IN  [ok |-> FALSE,
              message |->
                  IF error = {} THEN "Failed to parse PSD structure."
                  ELSE IF Val(error) \in {"Invalid signature", "Signature not found"}
                  THEN "Invalid file format. The file does not appear to be a valid Adobe Photoshop file."
                  ELSE IF Val(error) \in {"RangeError", "Out of bounds"}
                  THEN "The PSD file appears to be corrupted or truncated (Buffer out of bounds)."
                  ELSE "PSD Parsing Error: " \o Val(error)]

\* the files a user may choose
Files ==
    {[name |-> "a.psd", byteLength |-> 1,
      readPsd |-> [psd |-> [width |-> 4, height |-> 8, children |-> {}]]],
     [name |-> "b.psd", byteLength |-> 1,
      readPsd |-> [psd |-> [width |-> 0, height |-> 0, children |-> {<<>>}]]],
     [name |-> "empty.psd", byteLength |-> 0, readPsd |-> [throws |-> {}]]}
    \cup {[name |-> "c.png", byteLength |-> 1, readPsd |-> [throws |-> error]] :
             error \in {{}, {"Invalid signature"}, {"Out of bounds"}, {"boom"}}}

\* the try block of handleFileChange after the await, with the global
\* refresh in a finally clause
afterParseRefreshing(file, result) ==
    IF result.ok
    THEN LET templateData == extractTemplateMetadata(result.psd)
             layers == IF result.psd.children # {}
                       THEN getCleanLayerTree(Val(result.psd.children), <<>>)
                       ELSE <<>>
         IN  [psdRegistry |-> WithNode(psdRegistry, "loader", result.psd),
              templateRegistry |->
                  FlatRegistered(templateRegistry, "loader", templateData),
              globalVersion |-> globalVersion + 1,
              localError |-> localError,
              loaderData |-> Spread(loaderData,
                                    [fileName |-> file.name,
                                     template |-> templateData,
                                     designLayers |-> layers,
                                     error |-> {}])]
    ELSE LET errorMessage == IF result.message = "" THEN "Failed to parse PSD"
                             ELSE result.message
         IN  [psdRegistry |-> psdRegistry,
              templateRegistry |-> templateRegistry,
              globalVersion |-> globalVersion + 1,
              localError |-> {errorMessage},
              loaderData |-> Spread(loaderData, [error |-> {errorMessage}])]

\* the try and catch blocks of handleFileChange after the await: what the
\* registries, localError and the node data become
afterParse(file, result) ==
    IF result.ok
    THEN LET templateData == extractTemplateMetadata(result.psd)
             layers == IF result.psd.children # {}
                       THEN getCleanLayerTree(Val(result.psd.children), <<>>)
                       ELSE <<>>
         IN  [psdRegistry |-> WithNode(psdRegistry, "loader", result.psd),
              templateRegistry |->
                  FlatRegistered(templateRegistry, "loader", templateData),
              globalVersion |-> globalVersion + 1,
              localError |-> localError,
              loaderData |-> Spread(loaderData,
                                    [fileName |-> file.name,
                                     template |-> templateData,
                                     designLayers |-> layers,
                                     error |-> {}])]
    ELSE LET errorMessage == IF result.message = "" THEN "Failed to parse PSD"
                             ELSE result.message
         IN  [psdRegistry |-> psdRegistry,
              templateRegistry |-> templateRegistry,
              globalVersion |-> globalVersion,
              localError |-> {errorMessage},
              loaderData |-> Spread(loaderData, [error |-> {errorMessage}])]

\* handleFileChange up to the await of parsePsdFile
handleFileChange(file) ==
    /\ parseCalls < MaxFiles
    /\ isLoading' = TRUE
    /\ localError' = {}
    /\ parseCalls' = parseCalls + 1
    /\ loaderPending' = loaderPending \cup {[call |-> parseCalls + 1, file |-> file]}
    /\ UNCHANGED <<loaderRest, psdRegistry, templateRegistry, globalVersion,
                   parseResult, loaderData>>

\* the promise of a pending call settles and handleFileChange runs to its end
parseSettles(p) ==
    /\ \E io \in {{}, {{}}, {{"NotReadableError"}}} :
          \E result \in {parsePsdFile(p.file, io)} :
             \E after \in {afterParse(p.file, result)} :
                /\ parseResult' = {result}
                /\ psdRegistry' = after.psdRegistry
                /\ templateRegistry' = after.templateRegistry
                /\ globalVersion' = after.globalVersion
                /\ localError' = after.localError
                /\ loaderData' = after.loaderData
    /\ loaderPending' = loaderPending \ {p}
    /\ isLoading' = FALSE
    /\ UNCHANGED <<loaderRest, parseCalls>>

\* a node that is new, or restored from a project file without its binary
InitLoader ==
    /\ StoreInit
    /\ RemapperInit
    /\ apiKey = TRUE
    /\ ResolverIdle
    /\ ExtractorIdle
    /\ TransformIdle
    /\ ExportIdle
    /\ ProjectIdle
    /\ AnalystIdle
    /\ EditorIdle
    /\ ChannelsIdle
    /\ loaderPending = {}
    /\ parseCalls = 0
    /\ parseResult = {}
    /\ isLoading = FALSE
    /\ localError = {}
    /\ loaderData \in
          {[error |-> {}],
           [fileName |-> "a.psd",
            template |-> extractTemplateMetadata(
                             [width |-> 4, height |-> 8, children |-> {}]),
            designLayers |-> <<>>, error |-> {}]}

NextLoader ==
    \/ \E file \in Files : handleFileChange(file)
    \/ \E p \in loaderPending : parseSettles(p)

SpecLoader == InitLoader /\ [][NextLoader]_vars

-----------------------------------------------------------------------------

(* Part 10: the project controls (src/components/ProjectControls.tsx).  A
   JSON value is a record of its type t and, but for null, its value: a
   number n, a string s, a boolean b, a sequence a of JSON values for an
   array, a function o from keys to JSON values for an object.  A project file is a
   record of its name and of what JSON.parse does with its text: {} when it
   throws, {value} else. *)

\* number of project files chosen
MaxLoads == 2

\* value.key for a value that is not null or undefined; {} for undefined
Prop(value, key) ==
    IF value.t = "object" /\ key \in DOMAIN value.o THEN {value.o[key]} ELSE {}

\* the truthiness of a JSON value
Truthy(value) ==
    CASE value.t = "null" -> FALSE
      [] value.t = "boolean" -> value.b
      [] value.t = "number" -> value.n # 0
      [] value.t = "string" -> value.s # ""
      [] OTHER -> TRUE

\* isValidSchema that also requires version 1.0.0
isValidSchemaVersioned(rawData) ==
    /\ Truthy(rawData)
    /\ Prop(rawData, "nodes") # {} /\ Val(Prop(rawData, "nodes")).t = "array"
    /\ Prop(rawData, "edges") # {} /\ Val(Prop(rawData, "edges")).t = "array"
    /\ Prop(rawData, "viewport") # {} /\ Truthy(Val(Prop(rawData, "viewport")))
    /\ Prop(Val(Prop(rawData, "viewport")), "x") # {}
    /\ Val(Prop(Val(Prop(rawData, "viewport")), "x")).t = "number"
    /\ Prop(rawData, "version") = {[t |-> "string", s |-> "1.0.0"]}

\* rawData && Array.isArray(rawData.nodes) && Array.isArray(rawData.edges)
\*   && rawData.viewport && typeof rawData.viewport.x === 'number'
isValidSchema(rawData) ==
    /\ Truthy(rawData)
    /\ Prop(rawData, "nodes") # {} /\ Val(Prop(rawData, "nodes")).t = "array"
    /\ Prop(rawData, "edges") # {} /\ Val(Prop(rawData, "edges")).t = "array"
    /\ Prop(rawData, "viewport") # {} /\ Truthy(Val(Prop(rawData, "viewport")))
    /\ Prop(Val(Prop(rawData, "viewport")), "x") # {}
    /\ Val(Prop(Val(Prop(rawData, "viewport")), "x")).t = "number"

\* the project files a user may choose: saved projects of this and of other
\* versions, files with a property missing or of another type, JSON values
\* that are no object, text that is no JSON
ProjectFiles ==
    LET Num(n) == [t |-> "number", n |-> n]
        Str(str) == [t |-> "string", s |-> str]
        Arr(a) == [t |-> "array", a |-> a]
        Obj(o) == [t |-> "object", o |-> o]
        nodes == Arr(<<Str("n1"), Str("n2")>>)
        edges == Arr(<<Str("e1")>>)
        viewport == Obj([x |-> Num(0), y |-> Num(5), zoom |-> Num(2)])
        project == [version |-> Str("1.0.0"), timestamp |-> Num(7),
                    nodes |-> nodes, edges |-> edges, viewport |-> viewport]
        values ==
            {Obj(project),
             Obj(Spread(project, [version |-> Str("2.0.0")])),
             Obj(Drop(project, {"version"})),
             Obj(Spread(project, [viewport |-> Obj([x |-> Num(3)])])),
             Obj(Drop(project, {"nodes"})),
             Obj(Spread(project, [nodes |-> Obj([n1 |-> Str("n1")])])),
             Obj(Drop(project, {"edges"})),
             Obj(Spread(project, [edges |-> Str("e1")])),
             Obj(Drop(project, {"viewport"})),
             Obj(Spread(project, [viewport |-> [t |-> "null"]])),
             Obj(Spread(project, [viewport |-> Obj([y |-> Num(5), zoom |-> Num(2)])])),
             Obj(Spread(project, [viewport |-> Obj([x |-> Str("0"), y |-> Num(5)])])),
             Obj(Spread(project, [viewport |-> Str("0,5,2")])),
             [t |-> "null"], Num(1), Arr(<<nodes, edges, viewport>>)}
    IN  {[name |-> "project.json", json |-> {value}] : value \in values}
        \cup {[name |-> "notes.txt", json |-> {}]}

\* onLoad: a FileReader starts to read the file as text
onLoad(file) ==
    /\ projectLoads < MaxLoads
    /\ projectLoads' = projectLoads + 1
    /\ projectPending' = projectPending \cup {[load |-> projectLoads + 1, file |-> file]}
    /\ UNCHANGED <<projectRest, liveNodes, liveEdges, liveViewport, projectRead,
                   projectAlert>>

\* reader.onload: JSON.parse, the validation, and the replacement of the
\* live graph
readerLoads(p) ==
    /\ projectPending' = projectPending \ {p}
    /\ projectRead' = {p}
    /\ IF p.file.json = {}
       THEN /\ projectAlert' = {"Corrupt File: Could not parse JSON data."}
            /\ UNCHANGED <<liveNodes, liveEdges, liveViewport>>
       ELSE IF ~isValidSchema(Val(p.file.json))
       THEN /\ projectAlert' =
                  {"Invalid Project File: The file structure does not match the expected schema."}
            /\ UNCHANGED <<liveNodes, liveEdges, liveViewport>>
       ELSE /\ liveNodes' = Val(p.file.json).o.nodes.a
            /\ liveEdges' = Val(p.file.json).o.edges.a
            /\ liveViewport' = Val(p.file.json).o.viewport.o
            /\ UNCHANGED projectAlert
    /\ UNCHANGED <<projectRest, projectLoads>>

\* the FileReader fails: no onerror handler is set
readerFails(p) ==
    /\ projectPending' = projectPending \ {p}
    /\ UNCHANGED <<projectRest, liveNodes, liveEdges, liveViewport, projectLoads,
                   projectRead, projectAlert>>

InitProject ==
    /\ StoreInit
    /\ RemapperInit
    /\ apiKey = TRUE
    /\ ResolverIdle
    /\ ExtractorIdle
    /\ TransformIdle
    /\ ExportIdle
    /\ LoaderIdle
    /\ ProjectIdle
    /\ AnalystIdle
    /\ EditorIdle
    /\ ChannelsIdle

NextProject ==
    \/ \E file \in ProjectFiles : onLoad(file)
    \/ \E p \in projectPending : readerLoads(p)
    \/ \E p \in projectPending : readerFails(p)

SpecProject == InitProject /\ [][NextProject]_vars

-----------------------------------------------------------------------------

(* Part 11: the analyses, the draft debounce and the store synchronization
   effect of the Design Analyst (src/components/DesignAnalystNode.tsx).  The node has two
   instances and one draftTimeoutRef.  Time is counted in ms; a timer fires
   at or after its due time.  The chat history is not modelled: whether it
   holds an explicit request is an input of performAnalysis. *)

\* number of performAnalysis calls
MaxAnalyses == 2

\* the latest time
MaxClock == 1000

\* the delay of the draft timer
DraftDelay == 500

\* the strategies the model may answer with
AnalystStrategies ==
    {[method |-> "GEOMETRIC", generativePrompt |-> ""],
     [method |-> "GENERATIVE", generativePrompt |-> ""],
     [method |-> "GENERATIVE", generativePrompt |-> "p1"],
     [method |-> "HYBRID", generativePrompt |-> "p2"]}

\* getSourceData(index): the context of the container wired to source-in
sourceData ==
    [container |-> "SRC", layers |-> <<Leaf("0.0")>>, status |-> "resolved"]

\* getTargetData(index): the container wired to target-in
targetData == [name |-> "SLOT", bounds |-> [x |-> 0, y |-> 0, w |-> 100, h |-> 50]]

\* `source-out-${index}`
sourceOut(index) == IF index = 0 THEN "source-out-0" ELSE "source-out-1"

\* the timers armed after a trigger that does not clear the timer of the ref
scheduleDraftKeeping(armed, ref, timer) == armed \cup {timer}

\* the timers armed after clearTimeout(draftTimeoutRef.current) and setTimeout
scheduleDraft(armed, ref, timer) ==
    {t \in armed : ref # {t.id}} \cup {timer}

\* handleAnalyze / handleRefine: performAnalysis up to the await of the model
performAnalysis(index, isExplicitIntent) ==
    /\ analysesStarted < MaxAnalyses
    /\ apiKey
    /\ analysesStarted' = analysesStarted + 1
    /\ analyses' = analyses \cup {[call |-> analysesStarted + 1, index |-> index,
                                   isExplicitIntent |-> isExplicitIntent]}
    /\ analyzingInstances' = [analyzingInstances EXCEPT ![index] = TRUE]
    /\ chatExplicit' = [chatExplicit EXCEPT ![index] = isExplicitIntent]
    /\ UNCHANGED <<analystRest, templateRegistry, resolvedRegistry, analystClock,
                   layoutStrategy, draftTimeoutRef, armedTimers, draftTriggers,
                   draftCalls, draftsPending>>

\* the model answers with a strategy: performAnalysis from the await to its end
analysisArrives(a, json) ==
    /\ analyses' = analyses \ {a}
    /\ analyzingInstances' = [analyzingInstances EXCEPT ![a.index] = FALSE]
    /\ layoutStrategy' = [layoutStrategy EXCEPT ![a.index] = {json}]
    /\ \E augmentedContext \in
             {Spread(sourceData,
                     [aiStrategy |-> Spread(json, [isExplicitIntent |-> a.isExplicitIntent]),
                      targetDimensions |-> [w |-> targetData.bounds.w,
                                            h |-> targetData.bounds.h]])} :
          /\ resolvedRegistry' =
                SlotRegistered(resolvedRegistry, "analyst",
                               sourceOut(a.index),
                               SanitizedContext(augmentedContext))
          /\ IF json.method \in {"GENERATIVE", "HYBRID"} /\ json.generativePrompt # ""
             THEN \E timer \in {[id |-> Len(draftTriggers) + 1,
                                 due |-> analystClock + DraftDelay,
                                 index |-> a.index,
                                 context |-> augmentedContext]} :
                     /\ draftTriggers' = Append(draftTriggers,
                                                [at |-> analystClock, index |-> a.index])
                     /\ armedTimers' = scheduleDraft(armedTimers, draftTimeoutRef, timer)
                     /\ draftTimeoutRef' = {timer.id}
             ELSE UNCHANGED <<draftTriggers, armedTimers, draftTimeoutRef>>
    /\ UNCHANGED <<analystRest, templateRegistry, analystClock, analysesStarted,
                   chatExplicit, draftCalls, draftsPending>>

\* the request fails or the answer is no JSON: catch and finally
analysisFails(a) ==
    /\ analyses' = analyses \ {a}
    /\ analyzingInstances' = [analyzingInstances EXCEPT ![a.index] = FALSE]
    /\ UNCHANGED <<analystRest, templateRegistry, resolvedRegistry, analystClock,
                   analysesStarted, layoutStrategy, chatExplicit, draftTimeoutRef,
                   armedTimers, draftTriggers, draftCalls, draftsPending>>

\* a timer fires: generateDraft sends its request
timerFires(timer) ==
    /\ analystClock >= timer.due
    /\ apiKey
    /\ armedTimers' = armedTimers \ {timer}
    /\ draftCalls' = Append(draftCalls, [trigger |-> timer.id, at |-> analystClock])
    /\ draftsPending' = draftsPending \cup {timer}
    /\ UNCHANGED <<analystRest, templateRegistry, resolvedRegistry, analystClock,
                   analyses, analysesStarted, analyzingInstances, layoutStrategy,
                   chatExplicit, draftTimeoutRef, draftTriggers>>

\* generateDraft returns a url or null
draftReturns(draft, url) ==
    /\ draftsPending' = draftsPending \ {draft}
    /\ resolvedRegistry' =
          IF url = {} THEN resolvedRegistry
          ELSE SlotRegistered(resolvedRegistry, "analyst",
                              sourceOut(draft.index),
                              SanitizedContext(
                                  Spread(draft.context,
                                         [previewUrl |-> Val(url),
                                          message |-> "Free Preview: Draft"])))
    /\ UNCHANGED <<analystRest, templateRegistry, analystClock, analyses,
                   analysesStarted, analyzingInstances, layoutStrategy, chatExplicit,
                   draftTimeoutRef, armedTimers, draftTriggers, draftCalls>>

\* the store synchronization effect, run after a render: it registers the
\* context of every instance without a preview, and the proxy template
storeSynchronization ==
    LET augmentedContext(index) ==
            LET base == Spread(sourceData,
                               [targetDimensions |-> [w |-> targetData.bounds.w,
                                                      h |-> targetData.bounds.h]])
            IN  IF layoutStrategy[index] = {} THEN base
                ELSE Spread(base, [aiStrategy |->
                         Spread(Val(layoutStrategy[index]),
                                [isExplicitIntent |-> chatExplicit[index]])])
        first == SlotRegistered(resolvedRegistry, "analyst", sourceOut(0),
                                SanitizedContext(augmentedContext(0)))
        proxy(id, name) ==
            [id |-> id, name |-> name,
             originalName |-> targetData.name, bounds |-> targetData.bounds,
             normalized |-> [x |-> 0, y |-> 0, w |-> 1, h |-> 1]]
        syntheticTemplate ==
            [canvas |-> [width |-> targetData.bounds.w, height |-> targetData.bounds.h],
             containers |-> <<proxy("proxy-target-0", "target-out-0"),
                              proxy("proxy-target-1", "target-out-1")>>]
    IN  /\ resolvedRegistry' =
              SlotRegistered(first, "analyst", sourceOut(1),
                             SanitizedContext(augmentedContext(1)))
        /\ templateRegistry' =
              FlatRegistered(templateRegistry, "analyst", syntheticTemplate)
        /\ UNCHANGED <<analystRest, analystVars>>

\* time passes
tick(ms) ==
    /\ analystClock + ms <= MaxClock
    /\ analystClock' = analystClock + ms
    /\ UNCHANGED <<analystRest, templateRegistry, resolvedRegistry, analyses,
                   analysesStarted, analyzingInstances, layoutStrategy, chatExplicit,
                   draftTimeoutRef, armedTimers, draftTriggers, draftCalls,
                   draftsPending>>

InitAnalyst ==
    /\ StoreInit
    /\ RemapperInit
    /\ apiKey = TRUE
    /\ ResolverIdle
    /\ ExtractorIdle
    /\ TransformIdle
    /\ ExportIdle
    /\ LoaderIdle
    /\ ProjectIdle
    /\ AnalystIdle
    /\ EditorIdle
    /\ ChannelsIdle

NextAnalyst ==
    \/ \E in \in {<<0, FALSE>>, <<0, TRUE>>, <<1, FALSE>>} :
          performAnalysis(in[1], in[2])
    \/ \E a \in analyses, json \in AnalystStrategies : analysisArrives(a, json)
    \/ \E a \in analyses : analysisFails(a)
    \/ \E timer \in armedTimers : timerFires(timer)
    \/ \E draft \in draftsPending, url \in {{}, {"u1"}} : draftReturns(draft, url)
    \/ \E ms \in {100, 400} : tick(ms)

SpecAnalyst == InitAnalyst /\ [][NextAnalyst]_vars

\* the analyses and drafts together with the effect that follows each render
NextAnalystStore == NextAnalyst \/ storeSynchronization

SpecAnalystStore == InitAnalyst /\ [][NextAnalystStore]_vars

-----------------------------------------------------------------------------

(* Part 12: the graph editor (App, src/unnamed/part_004).  An edge is a
   record of id, source, sourceHandle, target and targetHandle, a handle
   being {} for null or undefined.  The nodes are those of initialNodes. *)

\* the type of a node of initialNodes, {} for an id that names no node
nodeType(id) ==
    IF id = "node-1" THEN {"loadPsd"}
    ELSE IF id = "node-knowledge-1" THEN {"knowledge"}
    ELSE IF id = "node-target-1" THEN {"targetTemplate"}
    ELSE IF id = "node-2" THEN {"designInfo"}
    ELSE IF id = "node-3" THEN {"templateSplitter"}
    ELSE IF id = "node-4" THEN {"containerResolver"}
    ELSE IF id = "node-analyst-1" THEN {"designAnalyst"}
    ELSE IF id = "node-remapper-1" THEN {"remapper"}
    ELSE IF id = "node-5" THEN {"targetSplitter"}
    ELSE IF id = "node-export-1" THEN {"exportPsd"}
    ELSE {}

\* String.prototype.startsWith on a handle, "" standing for `handle || ''`
startsWith(handle, prefix) ==
    LET str == IF handle = {} THEN "" ELSE Val(handle)
    IN  \E rest \in {"", "0", "1", "-0", "-1"} : str = prefix \o rest

\* handle || null
OrNull(handle) == IF TruthyStr(handle) THEN handle ELSE {}

\* the validation of onConnect returns before setEdges
rejected(params) ==
    LET sourceNode == nodeType(params.source)
        targetNode == nodeType(params.target)
        handle == params.targetHandle
    IN  /\ sourceNode # {}
        /\ targetNode # {}
        /\ \/ /\ targetNode = {"targetSplitter"}
              /\ handle = {"template-input"}
              /\ sourceNode # {"targetTemplate"}
           \/ /\ targetNode = {"remapper"}
              /\ IF startsWith(handle, "target-in-")
                 THEN sourceNode \notin {{"targetSplitter"}, {"designAnalyst"}}
                 ELSE /\ startsWith(handle, "source-in-")
                      /\ sourceNode \notin {{"containerResolver"}, {"designAnalyst"}}
           \/ /\ targetNode = {"designAnalyst"}
              /\ IF handle = {"knowledge-in"} THEN sourceNode # {"knowledge"}
                 ELSE IF startsWith(handle, "source-in")
                 THEN sourceNode # {"containerResolver"}
                 ELSE /\ startsWith(handle, "target-in")
                      /\ sourceNode # {"targetSplitter"}

\* const isMultiInput
isMultiInput(params) ==
    /\ nodeType(params.target) = {"exportPsd"}
    /\ OrNull(params.targetHandle) = {"assembly-input"}

\* the filter that keeps every edge
cleanEdgesKeepsAll(eds, params) == eds

\* const cleanEdges
cleanEdges(eds, params) ==
    IF isMultiInput(params) THEN eds
    ELSE SelectSeq(eds, LAMBDA edge :
             \/ edge.target # params.target
             \/ OrNull(edge.targetHandle) # OrNull(params.targetHandle))

\* addEdge of React Flow: the connection gets the id
\* `reactflow__edge-${source}${sourceHandle}-${target}${targetHandle}` and is
\* appended unless an edge between the same handles exists
addEdge(params, eds) ==
    LET handleText(h) == IF h = {} THEN "" ELSE Val(h)
        edge == [id |-> "reactflow__edge-" \o params.source
                        \o handleText(params.sourceHandle) \o "-"
                        \o params.target \o handleText(params.targetHandle),
                 source |-> params.source,
                 sourceHandle |-> params.sourceHandle,
                 target |-> params.target,
                 targetHandle |-> params.targetHandle]
        connectionExists ==
            \E i \in DOMAIN eds :
                /\ eds[i].source = edge.source
                /\ eds[i].target = edge.target
                /\ OrNull(eds[i].sourceHandle) = OrNull(edge.sourceHandle)
                /\ OrNull(eds[i].targetHandle) = OrNull(edge.targetHandle)
    IN  IF connectionExists THEN eds ELSE Append(eds, edge)

\* a Connection as React Flow hands it to onConnect
Connection(source, sourceHandle, target, targetHandle) ==
    [source |-> source, sourceHandle |-> sourceHandle,
     target |-> target, targetHandle |-> targetHandle]

\* the connections the user draws
Connections ==
    {Connection("node-target-1", {"target-metadata-out"}, "node-5", {"template-input"}),
     Connection("node-1", {}, "node-5", {"template-input"}),
     Connection("node-5", {"slot-bounds-A"}, "node-remapper-1", {"target-in-0"}),
     Connection("node-analyst-1", {"target-out-0"}, "node-remapper-1", {"target-in-0"}),
     Connection("node-4", {"source-0"}, "node-remapper-1", {"target-in-0"}),
     Connection("node-4", {"source-0"}, "node-remapper-1", {"source-in-0"}),
     Connection("node-analyst-1", {"source-out-0"}, "node-remapper-1", {"source-in-0"}),
     Connection("node-knowledge-1", {"knowledge-out"}, "node-analyst-1", {"knowledge-in"}),
     Connection("node-4", {"source-0"}, "node-analyst-1", {"knowledge-in"}),
     Connection("node-5", {"slot-bounds-A"}, "node-analyst-1", {"source-in-0"}),
     Connection("node-remapper-1", {"result-out-0"}, "node-export-1", {"assembly-input"}),
     Connection("node-remapper-1", {"result-out-1"}, "node-export-1", {"assembly-input"}),
     Connection("node-1", {}, "node-2", {})}

\* the most edges the graph is let grow to
MaxEdges == 6

onConnect(params) ==
    /\ Len(addEdge(params, cleanEdges(appEdges, params))) <= MaxEdges
    /\ connectCall' = {[params |-> params, before |-> appEdges,
                        rejected |-> rejected(params)]}
    /\ appEdges' = IF rejected(params) THEN appEdges
                   ELSE addEdge(params, cleanEdges(appEdges, params))
    /\ UNCHANGED editorRest

InitEditor ==
    /\ StoreInit
    /\ RemapperInit
    /\ apiKey = TRUE
    /\ ResolverIdle
    /\ ExtractorIdle
    /\ TransformIdle
    /\ ExportIdle
    /\ LoaderIdle
    /\ ProjectIdle
    /\ AnalystIdle
    /\ EditorIdle
    /\ ChannelsIdle

NextEditor == \E params \in Connections : onConnect(params)

SpecEditor == InitEditor /\ [][NextEditor]_vars

-----------------------------------------------------------------------------

(* Part 13: the Container Resolver node (src/unnamed/part_003) with two
   channels.  The document of the LoadPSD node is its template and its
   design layers; container names are sequences of characters.  Messages
   are left out of channels and contexts. *)

\* createContainerContext(template, containerName), {} for null
createContainerContext(template, containerName) ==
    LET found == SelectSeq(template.containers, LAMBDA c : c.name = containerName)
    IN  IF found = <<>> THEN {}
        ELSE {[containerName |-> found[1].name, bounds |-> found[1].bounds,
               canvasDimensions |-> [w |-> template.canvas.width,
                                     h |-> template.canvas.height]]}

\* a ChannelState
ChannelState(index, status, containerName, layerCount, debugCode, resolvedContext) ==
    [index |-> index, status |-> status, containerName |-> containerName,
     layerCount |-> layerCount, debugCode |-> debugCode,
     resolvedContext |-> resolvedContext]

\* const channels
channels ==
    [index \in {0, 1} |->
        LET edge == channelEdges[index]
            containerContext == createContainerContext(Val(globalTemplate), Val(edge))
            result == resolveLayer(Val(containerContext).containerName, sourceLayers)
            uiStatus == IF result.status = "RESOLVED" THEN "resolved"
                        ELSE IF result.status \in {"CASE_MISMATCH", "EMPTY_GROUP"}
                        THEN "warning"
                        ELSE "error"
        IN  IF edge = {} THEN ChannelState(index, "idle", {}, 0, {}, {})
            ELSE IF globalTemplate = {}
            THEN ChannelState(index, "error", {}, 0, {"DATA_LOCKED"}, {})
            ELSE IF containerContext = {}
            THEN ChannelState(index, "error", {}, 0, {"UNKNOWN_ERROR"}, {})
            ELSE ChannelState(index, uiStatus,
                              {Val(containerContext).containerName},
                              result.totalCount, {result.status},
                              IF result.layer # {}
                              THEN {[container |-> Val(containerContext),
                                     layers |-> Val(result.layer).children,
                                     status |-> "resolved"]}
                              ELSE {})]

\* `source-${channel.index}`
sourceHandle(index) == IF index = 0 THEN "source-0" ELSE "source-1"

\* the register effect, run after a render that changed the channels
registerChannels ==
    LET registered(reg, index) ==
            IF channels[index].resolvedContext # {}
            THEN SlotRegistered(reg, "resolver", sourceHandle(index),
                                SanitizedContext(Val(channels[index].resolvedContext)))
            ELSE reg
    IN  /\ renderedChannels # {channels}
        /\ resolvedRegistry' = registered(registered(resolvedRegistry, 0), 1)
        /\ renderedChannels' = {channels}
        /\ UNCHANGED <<channelRest, channelEdges, globalTemplate, sourceLayers>>

\* an edge from the Template Splitter is drawn into target-<index>
channelConnected(index, handle) ==
    /\ channelEdges[index] # {handle}
    /\ channelEdges' = [channelEdges EXCEPT ![index] = {handle}]
    /\ UNCHANGED <<channelRest, resolvedRegistry, globalTemplate, sourceLayers,
                   renderedChannels>>

\* the edge into target-<index> is removed
channelDisconnected(index) ==
    /\ channelEdges[index] # {}
    /\ channelEdges' = [channelEdges EXCEPT ![index] = {}]
    /\ UNCHANGED <<channelRest, resolvedRegistry, globalTemplate, sourceLayers,
                   renderedChannels>>

\* the LoadPSD node has parsed a document
documentLoaded(doc) ==
    /\ globalTemplate' = {doc.template}
    /\ sourceLayers' = {doc.designLayers}
    /\ <<globalTemplate', sourceLayers'>> # <<globalTemplate, sourceLayers>>
    /\ UNCHANGED <<channelRest, resolvedRegistry, channelEdges, renderedChannels>>

\* the LoadPSD node is removed from the graph
documentRemoved ==
    /\ globalTemplate # {}
    /\ globalTemplate' = {}
    /\ sourceLayers' = {}
    /\ UNCHANGED <<channelRest, resolvedRegistry, channelEdges, renderedChannels>>

\* a container of the template
NamedContainer(name) == [name |-> name, bounds |-> [x |-> 0, y |-> 0, w |-> 100, h |-> 50]]

\* a design group with its layers
GroupOf(name, kids) ==
    Layer("", name, "group",
          [i \in 1 .. kids |-> Layer("", <<"L">>, "layer", <<>>)])

\* the documents the LoadPSD node may hold
Documents ==
    {[template |-> [canvas |-> [width |-> 100, height |-> 50],
                    containers |-> containers],
      designLayers |-> WithPaths(groups, <<>>)] :
        containers \in {<<NamedContainer(<<"A">>), NamedContainer(<<"B">>)>>,
                        <<NamedContainer(<<"A">>)>>},
        groups \in {<<GroupOf(<<"A">>, 1), GroupOf(<<"B">>, 2)>>,
                    <<GroupOf(<<"A">>, 2)>>,
                    <<GroupOf(<<"a">>, 1), GroupOf(<<"B">>, 0)>>,
                    <<>>}}

InitChannels ==
    /\ StoreInit
    /\ RemapperInit
    /\ apiKey = TRUE
    /\ ResolverIdle
    /\ ExtractorIdle
    /\ TransformIdle
    /\ ExportIdle
    /\ LoaderIdle
    /\ ProjectIdle
    /\ AnalystIdle
    /\ EditorIdle
    /\ ChannelsIdle

NextChannels ==
    \/ registerChannels
    \/ \E index \in {0, 1}, handle \in {<<"A">>, <<"B">>} :
          channelConnected(index, handle)
    \/ \E index \in {0, 1} : channelDisconnected(index)
    \/ \E doc \in Documents : documentLoaded(doc)
    \/ documentRemoved

SpecChannels == InitChannels /\ [][NextChannels]_vars

-----------------------------------------------------------------------------

(* Properties of the reconciliation store *)

\* the observed call went through the merge
Merged == last.op \in {"registerPayload", "updatePayload"} /\ last.rule # "skip"

\* the payload of the observed slot before and after the observed call
Before == Stored(last.before, last.node, last.handle)
After == Stored(payloadRegistry, last.node, last.handle)

AllStored ==
    {payloadRegistry[n][h] : n \in DOMAIN payloadRegistry, h \in Handles} 

\* C1: a candidate that is not gate-closed and carries a non-zero
\* generationId strictly smaller than the non-zero generationId stored for
\* its slot leaves the registry as it was, without an update.
C1_StaleCandidateRejected ==
    ( /\ Merged
      /\ TruthyNum(OptCur(Before, "generationId"))
      /\ Opt(last.cand, "generationAllowed") # {FALSE}
      /\ TruthyNum(Opt(last.cand, "generationId"))
      /\ last.cand.generationId < Val(Before).generationId )
    => (payloadRegistry = last.before /\ ~last.updated)

\* a stale candidate that differs from the stored payload was submitted
C1_Witness ==
    /\ last.op = "registerPayload"
    /\ TruthyNum(OptCur(Before, "generationId"))
    /\ Opt(last.cand, "generationAllowed") # {FALSE}
    /\ TruthyNum(Opt(last.cand, "generationId"))
    /\ last.cand.generationId < Val(Before).generationId
    /\ Opt(last.cand, "layers") # OptCur(Before, "layers")

C3_GateClosedIsClean ==
    \A p \in AllStored :
        Opt(p, "generationAllowed") = {FALSE}
        => /\ Opt(p, "previewUrl") = {}
           /\ Has(p, "layers") => ~HasGenerativeDeep(p.layers)

\* C4: no stored payload is both transient and confirmed.
C4_TransientNotConfirmed ==
    \A p \in AllStored :
        ~(Opt(p, "isTransient") = {TRUE} /\ Opt(p, "isConfirmed") = {TRUE})

SlotPreview == OptCur(Stored(payloadRegistry, nodeId, resultOut), "previewUrl")
SlotSynthesizing ==
    TruthyBool(OptCur(Stored(payloadRegistry, nodeId, resultOut), "isSynthesizing"))

\* request r finishes in this step, after a request dispatched later for
\* another prompt, while r was in flight, has already delivered its asset
EarlierRequestFinishes(r) ==
    /\ r \in inflight
    /\ r \notin inflight'
    /\ landed.seq > r.seq
    /\ landed.prompt # r.prompt

\* C6: when two draft requests of the instance are in flight at once, the
\* second dispatched after a prompt change, and the later-dispatched one
\* has completed first, the completion of the earlier-dispatched request
\* leaves the stored previewUrl as it is.
C6_LateDraftDiscarded ==
    [][\A r \in inflight :
          EarlierRequestFinishes(r) => SlotPreview' = SlotPreview]_vars

\* C7: once a dispatched draft request has finished, by success, a thrown
\* API error, a missing API key or a response without image, a state
\* follows in which the slot's stored payload does not have isSynthesizing
\* set.
C7_SynthesisFlagCleared == (finished # "none") ~> ~SlotSynthesizing

\* the candidate of the synthesis-start rule, against an existing payload:
\* isSynthesizing=true, not gate-closed, not stale, not idle
FlushCase ==
    /\ Merged
    /\ Before # {}
    /\ Opt(last.cand, "isSynthesizing") = {TRUE}
    /\ Opt(last.cand, "generationAllowed") # {FALSE}
    /\ Opt(last.cand, "status") # {"idle"}
    /\ ~( /\ TruthyNum(OptCur(Before, "generationId"))
          /\ TruthyNum(Opt(last.cand, "generationId"))
          /\ last.cand.generationId < Val(Before).generationId )

\* what the synthesis-start rule keeps of the current payload in any case
FlushKeeps(s, c) ==
    /\ Opt(s, "isSynthesizing") = {TRUE}
    /\ \A k \in {"previewUrl", "generationId", "layers", "isConfirmed",
                 "isTransient", "status", "scaleFactor", "sourceNodeId",
                 "sourceContainer", "requiresGeneration"} :
           Opt(s, k) = Opt(c, k)
    /\ \A k \in {"sourceReference", "metrics"} :
           Opt(last.cand, k) = {} => Opt(s, k) = Opt(c, k)

PreservationCase ==
    /\ Merged
    /\ ~TruthyNum(Opt(last.cand, "generationId"))
    /\ TruthyNum(OptCur(Before, "generationId"))
    /\ Opt(last.cand, "generationAllowed") # {FALSE}
    /\ Opt(last.cand, "status") # {"idle"}
    /\ Opt(last.cand, "isSynthesizing") # {TRUE}

\* C9 as claimed: the result keeps the current previewUrl, generationId,
\* isSynthesizing, isConfirmed, isTransient and sourceReference and takes
\* layers, metrics and scaleFactor from the candidate.
C9_PreservationKeepsSourceReference ==
    PreservationCase
    => /\ After # {}
       /\ \A k \in {"previewUrl", "generationId", "isSynthesizing", "isConfirmed",
                    "isTransient", "sourceReference"} :
              Opt(Val(After), k) = OptCur(Before, k)
       /\ \A k \in {"layers", "metrics", "scaleFactor"} :
              Opt(Val(After), k) = Opt(last.cand, k)

\* C9 amended: as claimed, except that sourceReference is the current one
\* only when the current payload has one, and the candidate's otherwise.
C9_PreservationKeepsAsset ==
    PreservationCase
    => /\ After # {}
       /\ \A k \in {"previewUrl", "generationId", "isSynthesizing", "isConfirmed",
                    "isTransient"} :
              Opt(Val(After), k) = OptCur(Before, k)
       /\ Opt(Val(After), "sourceReference") =
              (IF OptCur(Before, "sourceReference") \notin {{}, {""}}
               THEN OptCur(Before, "sourceReference")
               ELSE Opt(last.cand, "sourceReference"))
       /\ \A k \in {"layers", "metrics", "scaleFactor"} :
              Opt(Val(After), k) = Opt(last.cand, k)

\* a re-layout with new geometry and its own flags met a confirmed asset
C9_Witness ==
    /\ PreservationCase
    /\ last.op = "registerPayload"
    /\ OptCur(Before, "isConfirmed") = {TRUE}
    /\ Opt(last.cand, "isConfirmed") = {FALSE}
    /\ OptCur(Before, "previewUrl") = {"u2"}
    /\ Opt(last.cand, "previewUrl") = {"u1"}
    /\ OptCur(Before, "sourceReference") = {"u2"}
    /\ Opt(last.cand, "sourceReference") = {"r1"}
    /\ OptCur(Before, "layers") # Opt(last.cand, "layers")
    /\ OptCur(Before, "layers") # {}

\* C10: registerPayload called a second time with the same arguments leaves
\* the registry identical and performs no update.
C10_RegisterIdempotent ==
    (last.op = "registerPayload" /\ last.repeat)
    => (payloadRegistry = last.before /\ ~last.updated)

\* the repeated call was one whose reconciled result is not the candidate
C10_Witness ==
    /\ last.op = "registerPayload"
    /\ last.repeat
    /\ last.rule = "preserve"
    /\ After # {}
    /\ Val(After) # last.cand
    /\ OptCur(After, "previewUrl") # Opt(last.cand, "previewUrl")

\* registry `after' is registry `before' without the entry of node n
Purged(before, after, n) ==
    /\ DOMAIN after = DOMAIN before \ {n}
    /\ \A m \in DOMAIN after : after[m] = before[m]

\* C11: unregisterNode(n) leaves no entry keyed by n in the psd, template,
\* resolved, payload, analysis and knowledge registries, leaves the entries
\* of every other node as they were, and increases globalVersion by 1.
C11_UnregisterPurges ==
    [][last'.op = "unregisterNode" /\ last.op = "none" =>
          /\ Purged(psdRegistry, psdRegistry', last'.node)
          /\ Purged(templateRegistry, templateRegistry', last'.node)
          /\ Purged(resolvedRegistry, resolvedRegistry', last'.node)
          /\ Purged(payloadRegistry, payloadRegistry', last'.node)
          /\ Purged(analysisRegistry, analysisRegistry', last'.node)
          /\ Purged(knowledgeRegistry, knowledgeRegistry', last'.node)
          /\ globalVersion' = globalVersion + 1]_vars

\* unregisterNode("remapper") after a refresh, the loader keeping an entry
\* in each of the six registries
C11_Witness ==
    /\ last.op = "unregisterNode"
    /\ last.node = "remapper"
    /\ "remapper" \in DOMAIN last.before
    /\ globalVersion = MaxVersion
    /\ DOMAIN psdRegistry = {"loader"}
    /\ DOMAIN templateRegistry = {"loader"}
    /\ DOMAIN resolvedRegistry = {"loader"}
    /\ DOMAIN payloadRegistry = {"loader"}
    /\ DOMAIN analysisRegistry = {"loader"}
    /\ DOMAIN knowledgeRegistry = {"loader"}

\* the observed candidate has status idle and is neither gate-closed nor
\* stale
IdleCase ==
    /\ Merged
    /\ Opt(last.cand, "status") = {"idle"}
    /\ Opt(last.cand, "generationAllowed") # {FALSE}
    /\ ~(/\ TruthyNum(OptCur(Before, "generationId"))
         /\ TruthyNum(Opt(last.cand, "generationId"))
         /\ last.cand.generationId < Val(OptCur(Before, "generationId")))

\* C12: a candidate with status idle that is neither gate-closed nor stale is
\* stored with previewUrl undefined and isConfirmed, isTransient and
\* isSynthesizing false; every other property is the candidate's own.
C12_IdleStripsCandidate ==
    IdleCase =>
        /\ After # {}
        /\ OptCur(After, "previewUrl") = {}
        /\ OptCur(After, "isConfirmed") = {FALSE}
        /\ OptCur(After, "isTransient") = {FALSE}
        /\ OptCur(After, "isSynthesizing") = {FALSE}
        /\ \A k \in (DOMAIN last.cand \cup DOMAIN Val(After))
                       \ {"previewUrl", "isConfirmed", "isTransient", "isSynthesizing"} :
              OptCur(After, k) = Opt(last.cand, k)

\* an idle candidate with an asset but no generationId replaces a payload
\* that holds a generationId and an asset
C12_Witness ==
    /\ IdleCase
    /\ last.updated
    /\ Opt(last.cand, "previewUrl") # {}
    /\ Opt(last.cand, "isConfirmed") = {TRUE}
    /\ Opt(last.cand, "generationId") = {}
    /\ TruthyNum(OptCur(Before, "generationId"))
    /\ OptCur(Before, "previewUrl") # {}
    /\ OptCur(After, "generationId") = {}

\* C13: once the source or target connection of the instance is removed, so
\* that the instance computes no payload, the payload stored for its output
\* slot is eventually reset (no previewUrl, no isConfirmed=true, no
\* generative layers), unless the connection is restored first.
C13_DisconnectResetsSlot ==
    (mounted /\ ~connected)
    ~> \/ connected
       \/ LET stored == Stored(payloadRegistry, nodeId, resultOut)
          IN  /\ OptCur(stored, "previewUrl") = {}
              /\ ~TruthyBool(OptCur(stored, "isConfirmed"))
              /\ \/ OptCur(stored, "layers") = {}
                 \/ ~HasGenerativeDeep(Val(OptCur(stored, "layers")))

\* the observed candidate falls under none of the gate, staleness, idle,
\* synthesis-start and geometric-preservation rules
FinalCase ==
    /\ Merged
    /\ Opt(last.cand, "generationAllowed") # {FALSE}
    /\ ~(/\ TruthyNum(OptCur(Before, "generationId"))
         /\ TruthyNum(Opt(last.cand, "generationId"))
         /\ last.cand.generationId < Val(OptCur(Before, "generationId")))
    /\ Opt(last.cand, "status") # {"idle"}
    /\ Opt(last.cand, "isSynthesizing") # {TRUE}
    /\ ~(/\ ~TruthyNum(Opt(last.cand, "generationId"))
         /\ TruthyNum(OptCur(Before, "generationId")))

\* C14: when none of the gate, staleness, idle, synthesis-start and
\* geometric-preservation rules applies, the stored payload is the candidate
\* with sourceReference and generationId taken from the current payload when
\* the candidate has none, with isConfirmed = false for a transient
\* candidate, else the candidate's isConfirmed, else the current payload's,
\* else false, and with generationAllowed = true.
C14_FinalConstruction ==
    FinalCase =>
        /\ After # {}
        /\ OptCur(After, "sourceReference") =
              (IF Opt(last.cand, "sourceReference") \notin {{}, {""}}
               THEN Opt(last.cand, "sourceReference")
               ELSE OptCur(Before, "sourceReference"))
        /\ OptCur(After, "generationId") =
              (IF Opt(last.cand, "generationId") \notin {{}, {0}}
               THEN Opt(last.cand, "generationId")
               ELSE OptCur(Before, "generationId"))
        /\ OptCur(After, "isConfirmed") =
              (IF Opt(last.cand, "isTransient") = {TRUE} THEN {FALSE}
               ELSE IF Opt(last.cand, "isConfirmed") # {}
                    THEN Opt(last.cand, "isConfirmed")
               ELSE IF OptCur(Before, "isConfirmed") # {}
                    THEN OptCur(Before, "isConfirmed")
               ELSE {FALSE})
        /\ OptCur(After, "generationAllowed") = {TRUE}
        /\ \A k \in (DOMAIN last.cand \cup DOMAIN Val(After))
                       \ {"isConfirmed", "sourceReference", "generationId",
                          "generationAllowed"} :
              OptCur(After, k) = Opt(last.cand, k)

\* a candidate with a generationId of its own, without isConfirmed and
\* without sourceReference, met a confirmed payload that has both
C14_Witness ==
    /\ FinalCase
    /\ last.updated
    /\ Opt(last.cand, "isConfirmed") = {}
    /\ Opt(last.cand, "sourceReference") = {}
    /\ OptCur(Before, "isConfirmed") = {TRUE}
    /\ OptCur(Before, "sourceReference") # {}
    /\ OptCur(After, "isConfirmed") = {TRUE}
    /\ OptCur(After, "sourceReference") = OptCur(Before, "sourceReference")

\* what registerPayload(node, handle, {...c, ...partial}) returns for the
\* registry the observed updatePayload found, c being the payload of the slot
RegisterOfMerge ==
    RegisterPayloadResult(last.before, last.node, last.handle,
                          Drop(Spread(Val(Before), last.arg.set), last.arg.clear),
                          "undefined")

\* C15: updatePayload(n, h, partial) on a slot that holds payload c stores
\* exactly what registerPayload(n, h, {...c, ...partial}) would store against
\* c, and updates the registry exactly when that call would.
C15_UpdateIsRegisterOfMerge ==
    (last.op = "updatePayload" /\ Before # {})
    => /\ payloadRegistry = RegisterOfMerge.reg
       /\ last.updated = RegisterOfMerge.fresh

\* a patch whose reconciliation stored something that is neither the merge
\* nor the payload the slot held
C15_Witness ==
    /\ last.op = "updatePayload"
    /\ Before # {}
    /\ last.updated
    /\ After # {}
    /\ Val(After) # last.cand
    /\ Val(After) # Val(Before)
    /\ DOMAIN last.arg.set # {}

-----------------------------------------------------------------------------
(* Properties of the container resolver *)

\* the nodes of a tree in pre-order: parent before children, siblings in
\* array order
RECURSIVE PreOrder(_)
PreOrder(tree) ==
    IF tree = <<>> THEN <<>>
    ELSE <<Head(tree)>> \o PreOrder(Head(tree).children) \o PreOrder(Tail(tree))

\* the first node of seq whose position is in hits; {} when there is none
FirstOf(seq, hits) ==
    IF hits = {} THEN {} ELSE {seq[CHOOSE i \in hits : \A j \in hits : i <= j]}

\* the first node in pre-order whose name is target exactly, or but for case
FirstExact(tree, target) ==
    LET nodes == PreOrder(tree)
    IN  FirstOf(nodes, {i \in DOMAIN nodes : nodes[i].name = target})
FirstLoose(tree, target) ==
    LET nodes == PreOrder(tree)
    IN  FirstOf(nodes, {i \in DOMAIN nodes :
                          toLowerCase(nodes[i].name) = toLowerCase(target)})

\* resolveLayer has returned for a tree that is not null
Resolved == resolverResult # {} /\ designTree # {}

\* what C16 asks of the result for the searched name `target'
StrictBeforeLoose(target) ==
    LET result == Val(resolverResult)
        exact == FirstExact(Val(designTree), target)
        loose == FirstLoose(Val(designTree), target)
    IN  /\ exact # {} => /\ result.layer = exact
                         /\ result.status \in {"RESOLVED", "EMPTY_GROUP"}
        /\ (exact = {} /\ loose # {}) => result.layer = loose

\* C16 as claimed: if some node's name equals the target name stripped of
\* its leading marker characters exactly, resolveLayer returns the first
\* such node in pre-order with status RESOLVED or EMPTY_GROUP, even when a
\* node matching only case-insensitively comes earlier; only when no exact
\* match exists is the first case-insensitive match in pre-order returned.
C16_StrictBeforeLooseStripped ==
    (Resolved /\ StripMarkers(templateName) # <<>>)
    => StrictBeforeLoose(StripMarkers(templateName))

\* C16 amended: as claimed, for the target name stripped of its leading
\* marker characters and then of surrounding whitespace.
C16_StrictBeforeLooseTrimmed ==
    (Resolved /\ trim(StripMarkers(templateName)) # <<>>)
    => StrictBeforeLoose(trim(StripMarkers(templateName)))

\* a node that matches only case-insensitively precedes, in pre-order, two
\* exact matches, the first of them nested
C16_Witness ==
    /\ Resolved
    /\ LET target == trim(StripMarkers(templateName))
           nodes == PreOrder(Val(designTree))
       IN  /\ Len(nodes) = 3
           /\ nodes[1].name # target
           /\ toLowerCase(nodes[1].name) = toLowerCase(target)
           /\ nodes[2].name = target
           /\ nodes[3].name = target
           /\ Len(nodes[1].children) = 1
           /\ Val(resolverResult).layer = {nodes[2]}

\* the status and the node of the result, by the cases of C17, for the
\* searched name `target'
StatusCases(target) ==
    LET result == Val(resolverResult)
    IN  /\ result.status \in {"DATA_LOCKED", "NO_NAME", "MISSING_DESIGN_GROUP",
                               "RESOLVED", "CASE_MISMATCH", "EMPTY_GROUP"}
        /\ designTree = {} => (result.status = "DATA_LOCKED" /\ result.layer = {})
        /\ (designTree # {} /\ target = <<>>)
              => (result.status = "NO_NAME" /\ result.layer = {})
        /\ (designTree # {} /\ target # <<>>)
              => LET exact == FirstExact(Val(designTree), target)
                     loose == FirstLoose(Val(designTree), target)
                 IN  /\ (exact = {} /\ loose = {})
                           => /\ result.status = "MISSING_DESIGN_GROUP"
                              /\ result.layer = {}
                     /\ exact # {}
                           => /\ result.status \in {"RESOLVED", "EMPTY_GROUP"}
                              /\ result.layer # {}
                              /\ Val(result.layer).name = target
                     /\ (exact = {} /\ loose # {})
                           => /\ result.status \in {"CASE_MISMATCH", "EMPTY_GROUP"}
                              /\ result.layer # {}
                              /\ toLowerCase(Val(result.layer).name) = toLowerCase(target)

\* a call of resolveLayer returns in this step
ResolveStep == resolverResult = {} /\ resolverResult' # {}

\* C17 as claimed: resolveLayer changes no state and returns one of the six
\* statuses: DATA_LOCKED when the tree is null, whatever the name; NO_NAME
\* when the name is empty or empty after stripping the leading marker
\* characters; MISSING_DESIGN_GROUP with a null node when neither search
\* matches; otherwise RESOLVED (strict match), CASE_MISMATCH (loose match) or
\* EMPTY_GROUP with the matched node attached.
C17_SixStatusesStripped ==
    [][ResolveStep =>
          /\ UNCHANGED <<templateName, designTree, storeVars, last, remapperVars,
                       extractorVars, transformVars, nodeVars>>
          /\ StatusCases(StripMarkers(templateName))']_vars

\* C17 amended: as claimed, except that the name is stripped of its leading
\* marker characters and then of surrounding whitespace: a name that is then
\* empty gives NO_NAME, and the searches look for the trimmed name.
C17_SixStatusesTrimmed ==
    [][ResolveStep =>
          /\ UNCHANGED <<templateName, designTree, storeVars, last, remapperVars,
                       extractorVars, transformVars, nodeVars>>
          /\ StatusCases(trim(StripMarkers(templateName)))']_vars

\* markers followed by a blank were resolved against a tree that has nodes
C17_Witness ==
    /\ resolverResult # {}
    /\ templateName = <<"!", "!", " ">>
    /\ designTree # {}
    /\ Val(designTree) # <<>>
    /\ Val(resolverResult).status = "NO_NAME"

\* C18: the count resolveLayer reports for a matched node is its recursive
\* leaf count (a non-group node counts 1, a group the sum of its children's
\* counts, 0 if childless), and the status is EMPTY_GROUP exactly when that
\* count is 0, for strict and for loose matches.
C18_RecursiveLeafCount ==
    (resolverResult # {} /\ Val(resolverResult).layer # {})
    => LET result == Val(resolverResult)
           nodes == PreOrder(<<Val(result.layer)>>)
       IN  /\ result.totalCount =
                 Cardinality({i \in DOMAIN nodes : nodes[i].type # "group"})
           /\ result.status = "EMPTY_GROUP" <=> result.totalCount = 0
           /\ result.status \in {"RESOLVED", "CASE_MISMATCH", "EMPTY_GROUP"}

\* a loose match on a group whose only leaf is nested in a sub-group
C18_Witness ==
    /\ resolverResult # {}
    /\ Val(resolverResult).status = "CASE_MISMATCH"
    /\ Val(resolverResult).totalCount = 1
    /\ \E layer \in Val(resolverResult).layer :
          /\ Len(layer.children) = 1
          /\ layer.children[1].type = "group"
          /\ Len(layer.children[1].children) = 1

-----------------------------------------------------------------------------
(* Properties of the container extractor *)

\* C19: extractTemplateMetadata emits one container per direct child of the
\* top-level group named !!TEMPLATE, in document child order, with pairwise
\* distinct ids container-<index>-<cleaned name>; without such a group the
\* container list is empty; the canvas dimensions are populated, a reported
\* 0 replaced by 1.
C19_ContainerPerTemplateChild ==
    templateMetadata # {}
    => LET document == Val(parsedPsd)
           result == Val(templateMetadata)
           containers == result.containers
           \* the top-level groups named !!TEMPLATE, by position
           groups ==
               IF document.children = {} THEN {}
               ELSE {i \in DOMAIN Val(document.children) :
                        /\ Val(document.children)[i].name = "!!TEMPLATE"
                        /\ Val(document.children)[i].children # {}}
           \* the children of the first of them
           children ==
               Val(Val(document.children)[CHOOSE i \in groups :
                                             \A j \in groups : i <= j].children)
       IN  /\ groups # {}
                 => /\ Len(containers) = Len(children)
                    /\ \A i \in DOMAIN containers :
                          /\ containers[i].originalName = RawName(children[i].name)
                          /\ containers[i].bounds.x = OrZero(children[i].left)
                          /\ containers[i].bounds.y = OrZero(children[i].top)
                          /\ containers[i].id =
                                <<"container-">> \o Decimal(i - 1) \o <<"-">>
                                   \o Underscored(containers[i].name)
                    /\ \A i, j \in DOMAIN containers :
                          i # j => containers[i].id # containers[j].id
           /\ groups = {} => containers = <<>>
           /\ result.canvas.width = (IF document.width = 0 THEN 1 ELSE document.width)
           /\ result.canvas.height = (IF document.height = 0 THEN 1 ELSE document.height)

-----------------------------------------------------------------------------
(* Properties of the transform *)

\* the rigid projection of a source coordinate: anchor + rel * (sourceDim * scale)
ProjectedX(layer, in) ==
    AnchorX(in.sourceRect, in.targetRect, in.strategy)
      + (layer.coords.x - in.sourceRect.x)
          * GlobalScale(in.sourceRect, in.targetRect, in.strategy)
ProjectedY(layer, in) ==
    AnchorY(in.sourceRect, in.targetRect, in.strategy)
      + (layer.coords.y - in.sourceRect.y)
          * GlobalScale(in.sourceRect, in.targetRect, in.strategy)

\* y held to the band of the target, 3 percent of its height beyond each edge
Clamped(y, targetRect) ==
    IF y < targetRect.y - (targetRect.h * 3) \div 100
    THEN targetRect.y - (targetRect.h * 3) \div 100
    ELSE IF y > targetRect.y + targetRect.h + (targetRect.h * 3) \div 100
         THEN targetRect.y + targetRect.h + (targetRect.h * 3) \div 100
    ELSE y

\* an overridden layer is placed at the target origin plus its offsets, its
\* y then clamped, and scaled by the global scale times individualScale
OverridePlaced(layer, out, in) ==
    LET override == Val(FindOverride(in.strategy, layer.id))
        scale == GlobalScale(in.sourceRect, in.targetRect, in.strategy)
    IN  /\ out.id = layer.id
        /\ out.coords.x = in.targetRect.x + override.xOffset
        /\ out.coords.y = Clamped(in.targetRect.y + override.yOffset, in.targetRect)
        /\ out.transform.scaleX = scale * override.individualScale
        /\ out.transform.scaleY = scale * override.individualScale

\* C20 as claimed: a layer whose id has an override is placed at
\* x = targetX + xOffset and y = targetY + yOffset (before the vertical
\* clamp), whatever its projection, with the global scale times
\* individualScale on both axes; a layer without override keeps the rigid
\* projection anchor + rel * (sourceDim * scale) and the global scale.
C20_OverrideReplacesElseProjection ==
    transformedLayers # {}
    => LET in == Val(transformInput)
           layers == PreOrder(in.layers)
           outs == PreOrder(Val(transformedLayers))
       IN  /\ Len(outs) = Len(layers)
           /\ \A i \in DOMAIN layers :
                 IF FindOverride(in.strategy, layers[i].id) # {}
                 THEN OverridePlaced(layers[i], outs[i], in)
                 ELSE /\ outs[i].id = layers[i].id
                      /\ outs[i].coords.x = ProjectedX(layers[i], in)
                      /\ outs[i].coords.y = ProjectedY(layers[i], in)
                      /\ outs[i].transform.scaleX =
                            GlobalScale(in.sourceRect, in.targetRect, in.strategy)
                      /\ outs[i].transform.scaleY =
                            GlobalScale(in.sourceRect, in.targetRect, in.strategy)

\* C20 amended: as claimed, except that the y of a layer without override is
\* its rigid projection before the vertical clamp, as for an overridden layer.
C20_OverrideReplacesElseClampedProjection ==
    transformedLayers # {}
    => LET in == Val(transformInput)
           layers == PreOrder(in.layers)
           outs == PreOrder(Val(transformedLayers))
       IN  /\ Len(outs) = Len(layers)
           /\ \A i \in DOMAIN layers :
                 IF FindOverride(in.strategy, layers[i].id) # {}
                 THEN OverridePlaced(layers[i], outs[i], in)
                 ELSE /\ outs[i].id = layers[i].id
                      /\ outs[i].coords.x = ProjectedX(layers[i], in)
                      /\ outs[i].coords.y =
                            Clamped(ProjectedY(layers[i], in), in.targetRect)
                      /\ outs[i].transform.scaleX =
                            GlobalScale(in.sourceRect, in.targetRect, in.strategy)
                      /\ outs[i].transform.scaleY =
                            GlobalScale(in.sourceRect, in.targetRect, in.strategy)

\* on a target at (0,0,100,100) a layer projected to (10,10) with the
\* override {xOffset: 5, yOffset: 5, individualScale: 2} lands at (5,5),
\* next to a layer without override whose projection lies outside the band
C20_Witness ==
    /\ transformedLayers # {}
    /\ LET in == Val(transformInput)
           layers == PreOrder(in.layers)
           outs == PreOrder(Val(transformedLayers))
       IN  /\ in.targetRect = Rect(0, 0, 100, 100)
           /\ \E i \in DOMAIN layers :
                 /\ FindOverride(in.strategy, layers[i].id) # {}
                 /\ ProjectedX(layers[i], in) = 10
                 /\ ProjectedY(layers[i], in) = 10
                 /\ outs[i].coords.x = 5
                 /\ outs[i].coords.y = 5
                 /\ outs[i].transform.scaleX = 2
           /\ \E i \in DOMAIN layers :
                 /\ FindOverride(in.strategy, layers[i].id) = {}
                 /\ outs[i].coords.y # ProjectedY(layers[i], in)

\* C21: every layer of the transformed tree, at every depth and with or
\* without override, has its y within [targetY - bleed, targetY + targetH +
\* bleed], bleed being 3 percent of the target height; its x is the
\* unclamped one: targetX + xOffset under an override, else the projection.
C21_VerticalClampOnly ==
    transformedLayers # {}
    => LET in == Val(transformInput)
           layers == PreOrder(in.layers)
           outs == PreOrder(Val(transformedLayers))
           bleed == (in.targetRect.h * 3) \div 100
       IN  \A i \in DOMAIN outs :
              /\ outs[i].coords.y >= in.targetRect.y - bleed
              /\ outs[i].coords.y <= in.targetRect.y + in.targetRect.h + bleed
              /\ outs[i].coords.x =
                    (IF FindOverride(in.strategy, layers[i].id) # {}
                     THEN in.targetRect.x
                            + Val(FindOverride(in.strategy, layers[i].id)).xOffset
                     ELSE ProjectedX(layers[i], in))

\* a nested layer with an override and a top-level layer without one were
\* both held at an edge of the band, and a layer lies left of the target
\* by more than the bleed
C21_Witness ==
    /\ transformedLayers # {}
    /\ LET in == Val(transformInput)
           layers == PreOrder(in.layers)
           outs == PreOrder(Val(transformedLayers))
           bleed == (in.targetRect.h * 3) \div 100
       IN  /\ \E i \in DOMAIN layers :
                 /\ layers[i].id = <<"0", ".", "0">>
                 /\ FindOverride(in.strategy, layers[i].id) # {}
                 /\ in.targetRect.y
                      + Val(FindOverride(in.strategy, layers[i].id)).yOffset
                      < in.targetRect.y - bleed
                 /\ outs[i].coords.y = in.targetRect.y - bleed
           /\ \E i \in DOMAIN layers :
                 /\ FindOverride(in.strategy, layers[i].id) = {}
                 /\ ProjectedY(layers[i], in) > in.targetRect.y + in.targetRect.h + bleed
                 /\ outs[i].coords.y = in.targetRect.y + in.targetRect.h + bleed
           /\ \E i \in DOMAIN layers :
                 outs[i].coords.x < in.targetRect.x - bleed

\* C22: without a strategy the scale is min(targetW/sourceW, targetH/sourceH):
\* the scaled source fits the target and fills it on one axis.  It is the
\* scaleFactor of the payload and the scale of both axes of every layer at
\* every depth, and every layer is projected from the anchor that centres
\* the scaled source rectangle in the target, horizontally and vertically.
C22_BaselineFitCentred ==
    (instancePayload # {} /\ Val(transformInput).strategy = {})
    => LET in == Val(transformInput)
           payload == Val(instancePayload)
           source == in.sourceRect
           target == in.targetRect
           scale == payload.scaleFactor
           anchorX == target.x + (target.w - source.w * scale) \div 2
           anchorY == target.y + (target.h - source.h * scale) \div 2
           layers == PreOrder(in.layers)
           outs == PreOrder(payload.layers)
       IN  /\ source.w * scale <= target.w
           /\ source.h * scale <= target.h
           /\ source.w * scale = target.w \/ source.h * scale = target.h
           /\ 2 * (anchorX - target.x) = target.w - source.w * scale
           /\ 2 * (anchorY - target.y) = target.h - source.h * scale
           /\ Len(outs) = Len(layers)
           /\ \A i \in DOMAIN layers :
                 /\ outs[i].transform.scaleX = scale
                 /\ outs[i].transform.scaleY = scale
                 /\ outs[i].coords.w = layers[i].coords.w * scale
                 /\ outs[i].coords.h = layers[i].coords.h * scale
                 /\ outs[i].coords.x = anchorX + (layers[i].coords.x - source.x) * scale
                 /\ outs[i].coords.y =
                       Clamped(anchorY + (layers[i].coords.y - source.y) * scale, target)

\* a 50x50 source in a 100x200 target: the ratios are 2 and 4, the scale is
\* 2, the anchor (0, 50), and the nested layer at (30, 40) lands at (40, 90)
C22_Witness ==
    /\ instancePayload # {}
    /\ Val(transformInput).strategy = {}
    /\ Val(transformInput).sourceRect = Rect(10, 20, 50, 50)
    /\ Val(transformInput).targetRect = Rect(0, 0, 100, 200)
    /\ Val(instancePayload).scaleFactor = 2
    /\ \E i \in DOMAIN Val(instancePayload).layers :
          LET group == Val(instancePayload).layers[i]
          IN  /\ Len(group.children) = 1
              /\ group.children[1].transform.scaleX = 2
              /\ group.children[1].transform.scaleY = 2
              /\ group.children[1].coords.x = 40
              /\ group.children[1].coords.y = 90

\* C23: the payload contains a generative layer exactly when the strategy's
\* generativePrompt is non-empty and equal to the prompt confirmed for the
\* instance; that layer is then the first layer and its coords are the
\* bounds of the target container.  For a prompt that is not confirmed no
\* generative layer is present and the status is awaiting_confirmation if
\* the intent is explicit or the scale exceeds 2 (and success if not).
C23_GenerativeLayerIffConfirmed ==
    instancePayload # {}
    => LET in == Val(transformInput)
           payload == Val(instancePayload)
           prompt == IF in.strategy = {} THEN "" ELSE Val(in.strategy).generativePrompt
           confirmed == prompt # "" /\ in.confirmedPrompt = {prompt}
           nodes == PreOrder(payload.layers)
           generative == {i \in DOMAIN nodes : nodes[i].type = "generative"}
       IN  /\ generative # {} <=> confirmed
           /\ confirmed
                 => /\ generative = {1}
                    /\ payload.layers[1].type = "generative"
                    /\ payload.layers[1].coords = in.targetRect
           /\ (prompt # "" /\ ~confirmed)
                 => /\ generative = {}
                    /\ payload.status = "awaiting_confirmation"
                          <=> \/ Val(in.strategy).isExplicitIntent
                              \/ payload.scaleFactor > 2
                    /\ payload.status \in {"awaiting_confirmation", "success"}

\* the confirmed prompt of a strategy with explicit intent and scale 3 put
\* the generative layer before a group and a layer, at the target bounds
C23_Witness ==
    /\ instancePayload # {}
    /\ Val(transformInput).confirmedPrompt = {"p1"}
    /\ Val(transformInput).strategy # {}
    /\ Val(instancePayload).scaleFactor = 3
    /\ Len(Val(instancePayload).layers) = 3
    /\ Val(instancePayload).layers[1].type = "generative"
    /\ Val(instancePayload).layers[1].coords = Rect(20, 40, 200, 100)
    /\ Val(instancePayload).layers[2].type = "group"
    /\ Val(instancePayload).status = "success"

-----------------------------------------------------------------------------
(* Properties of the path ids *)

\* every node of `nodes', the tree built from the array `layers' of the
\* document, has an id that findLayerByPath resolves to the layer it was
\* built from: the k-th node comes from the k-th layer not named !!TEMPLATE
RECURSIVE PathsResolve(_, _, _)
PathsResolve(document, nodes, layers) ==
    LET kept == SelectSeq([i \in DOMAIN layers |-> i],
                          LAMBDA i : layers[i].name # {TemplateName})
    IN  /\ Len(nodes) = Len(kept)
        /\ \A k \in DOMAIN nodes :
              /\ findLayerByPath(document, nodes[k].id) = {layers[kept[k]]}
              /\ PathsResolve(document, nodes[k].children,
                              IF layers[kept[k]].children = {} THEN <<>>
                              ELSE Val(layers[kept[k]].children))

\* C24: for every node of the tree getCleanLayerTree builds from a parsed
\* document, findLayerByPath(document, node.id) returns the layer the node
\* was built from, the filtered !!TEMPLATE groups counting in the indices;
\* the transformed layers that are not generative carry the ids of the
\* nodes, and the id of a generative layer resolves to no layer.
C24_PathIdsResolve ==
    (parsedPsd # {} /\ designLayers # {})
    => LET document == Val(parsedPsd)
           nodes == PreOrder(Val(designLayers))
       IN  /\ PathsResolve(document, Val(designLayers),
                           IF document.children = {} THEN <<>>
                           ELSE Val(document.children))
           /\ instancePayload # {}
                 => LET outs == PreOrder(Val(instancePayload).layers)
                        plain == SelectSeq(outs, LAMBDA l : l.type # "generative")
                    IN  /\ Len(plain) = Len(nodes)
                        /\ \A i \in DOMAIN plain : plain[i].id = nodes[i].id
                        /\ \A i \in DOMAIN outs :
                              outs[i].type = "generative"
                              => findLayerByPath(document, outs[i].id) = {}

\* the document holds a !!TEMPLATE group before a group with one layer: the
\* layer has id 1.0, is the first child of the second top-level layer, and
\* the payload carries it below a generative layer
C24_Witness ==
    /\ parsedPsd # {}
    /\ designLayers # {}
    /\ instancePayload # {}
    /\ Val(parsedPsd).children # {}
    /\ Len(Val(Val(parsedPsd).children)) = 2
    /\ Val(Val(parsedPsd).children)[1].name = {TemplateName}
    /\ Len(Val(instancePayload).layers) = 2
    /\ Val(instancePayload).layers[1].type = "generative"
    /\ Len(Val(instancePayload).layers[2].children) = 1
    /\ Val(instancePayload).layers[2].children[1].id = <<"1", ".", "0">>
    /\ \E layer \in findLayerByPath(Val(parsedPsd), <<"1", ".", "0">>) :
          layer.ref = <<2, 1>>

-----------------------------------------------------------------------------
(* Properties of the Export node *)

\* the layers with a canvas among the layers of a written group, at any depth
RECURSIVE PixelLayers(_)
PixelLayers(layers) ==
    IF layers = <<>> THEN <<>>
    ELSE (IF Has(Head(layers), "canvas") THEN <<Head(layers)>> ELSE <<>>)
         \o (IF Has(Head(layers), "children") /\ Head(layers).children # {}
             THEN PixelLayers(Val(Head(layers).children))
             ELSE <<>>)
         \o PixelLayers(Tail(layers))

\* the containers of the running export that have a payload, in order
Populated ==
    SelectSeq(Val(exportClosure).template.containers,
              LAMBDA c : Has(Val(exportClosure).slotConnections, c.name))

\* C25: the Assembler never emits a pixel layer for a generative layer of a
\* payload whose isConfirmed is not true: no generation task is started for
\* it, and the group written for its container holds no layer with a canvas
\* at any depth, whatever other payloads are assembled in the same export.
C25_NoPixelLayerForUnconfirmed ==
    (exportClosure # {} /\ newPsd # {})
    => /\ Len(Val(newPsd).children) = Len(Populated)
       /\ \A k \in DOMAIN Populated :
             LET payload == Val(exportClosure).slotConnections[Populated[k].name]
             IN  Opt(payload, "isConfirmed") # {TRUE}
                 => /\ findGenerativeLayers(payload.layers, payload) = <<>>
                    /\ PixelLayers(Val(newPsd).children[k].children) = <<>>

\* C26: the document handed to writePsdFile has exactly one top-level group
\* for each container of the template that has a payload, in the order of
\* the containers, named with the originalName of the container and placed
\* at its bounds; a container without payload has no group, and the export
\* does not fail before the file is written.
C26_OneGroupPerPopulatedContainer ==
    (exportClosure # {} /\ newPsd # {})
    => /\ Len(Val(newPsd).children) = Len(Populated)
       /\ \A k \in DOMAIN Populated :
             LET group == Val(newPsd).children[k]
                 container == Populated[k]
             IN  /\ group.name = container.originalName
                 /\ group.left = container.bounds.x
                 /\ group.top = container.bounds.y
                 /\ group.right = container.bounds.x + container.bounds.w
                 /\ group.bottom = container.bounds.y + container.bounds.h
       /\ exportError = {}

\* a document was assembled for a template of two containers of which only
\* the first, whose originalName differs from its name, has a payload
C26_Witness ==
    /\ exportClosure # {}
    /\ newPsd # {}
    /\ Len(Val(exportClosure).template.containers) = 2
    /\ DOMAIN Val(exportClosure).slotConnections = {<<"A">>}
    /\ Len(Val(newPsd).children) = 1
    /\ Val(newPsd).children[1].name = <<"!", "!", "A">>

\* C27: a procedural violation on one export slot (a payload wired to a slot
\* it does not target, or an upstream error payload) blocks only that slot:
\* while another slot of the template holds a payload without error and
\* without violation, handleExport is permitted.
C27_ViolationBlocksOnlyItsSlot ==
    (/\ ~isExporting
     /\ exportTemplate # {}
     /\ validationErrors # <<>>
     /\ \E i \in DOMAIN exportContainers :
           /\ Has(slotConnections, exportContainers[i].name)
           /\ slotConnections[exportContainers[i].name].status # "error"
           /\ \A e \in DOMAIN validationErrors :
                 validationErrors[e].slot # exportContainers[i].name)
    => isExportReady /\ ENABLED handleExport

-----------------------------------------------------------------------------
(* Properties of the loader node *)

\* C28: when parsing a loaded document fails, nothing is registered for it:
\* the step in which the promise of parsePsdFile rejects leaves the
\* psdRegistry and templateRegistry entries of the node and globalVersion as
\* they were, writes the error message into the data of the node, and starts
\* no parse; a parse is started only by the choice of a file.
C28_FailedParseRegistersNothing ==
    [][/\ (parseResult' # {} /\ loaderPending' # loaderPending
           /\ loaderPending' \subseteq loaderPending /\ ~Val(parseResult').ok)
          => /\ Opt(psdRegistry', "loader") = Opt(psdRegistry, "loader")
             /\ Opt(templateRegistry', "loader") = Opt(templateRegistry, "loader")
             /\ globalVersion' = globalVersion
             /\ loaderData'.error = {Val(parseResult').message}
             /\ Val(parseResult').message # ""
             /\ parseCalls' = parseCalls
       /\ parseCalls' # parseCalls
          => \E file \in Files :
                loaderPending' = loaderPending \cup {[call |-> parseCalls', file |-> file]}
      ]_vars

\* a second file failed to parse after a first was registered: the node holds
\* the document and the template of the first, and the error of the second
C28_Witness ==
    /\ parseResult # {}
    /\ ~Val(parseResult).ok
    /\ parseCalls = 2
    /\ loaderPending = {}
    /\ Has(psdRegistry, "loader")
    /\ Has(templateRegistry, "loader")
    /\ globalVersion = 1
    /\ loaderData.error = {"Invalid file format. The file does not appear to be a valid Adobe Photoshop file."}
    /\ Has(loaderData, "template")

-----------------------------------------------------------------------------
(* Properties of the project controls *)

\* the JSON value is an object whose property key is an array
HasArray(json, key) ==
    json.t = "object" /\ key \in DOMAIN json.o /\ json.o[key].t = "array"

\* the JSON value is an object with a viewport that has a numeric x
HasNumericX(json) ==
    /\ json.t = "object"
    /\ "viewport" \in DOMAIN json.o
    /\ json.o.viewport.t = "object"
    /\ "x" \in DOMAIN json.o.viewport.o
    /\ json.o.viewport.o.x.t = "number"

\* C29: loading a project file whose JSON lacks a nodes array, an edges array
\* or a viewport with numeric x (or whose text is no JSON) leaves the live
\* nodes, edges and viewport unchanged; a structurally valid file replaces
\* them with its own, whatever its version.
C29_ProjectLoadValidatesStructure ==
    [][\A p \in projectPending :
          (p \notin projectPending' /\ projectRead' = {p})
          => IF /\ p.file.json # {}
                /\ HasArray(Val(p.file.json), "nodes")
                /\ HasArray(Val(p.file.json), "edges")
                /\ HasNumericX(Val(p.file.json))
             THEN /\ liveNodes' = Val(p.file.json).o.nodes.a
                  /\ liveEdges' = Val(p.file.json).o.edges.a
                  /\ liveViewport' = Val(p.file.json).o.viewport.o
             ELSE UNCHANGED <<liveNodes, liveEdges, liveViewport>>]_vars

\* a file without a nodes array was refused, then a project of version 2.0.0
\* replaced the graph of the session
C29_Witness ==
    /\ projectRead # {}
    /\ Val(projectRead).load = 2
    /\ Val(projectRead).file.json # {}
    /\ Prop(Val(Val(projectRead).file.json), "version") = {[t |-> "string", s |-> "2.0.0"]}
    /\ projectAlert # {}
    /\ projectPending = {}
    /\ Len(liveNodes) = 2
    /\ liveNodes[1] = [t |-> "string", s |-> "n1"]
    /\ liveViewport.zoom = [t |-> "number", n |-> 2]

-----------------------------------------------------------------------------
(* Properties of the Design Analyst *)

\* C30: a draft-generation call is dispatched only after 500 ms have passed
\* since its trigger with no newer trigger in between; of triggers less than
\* 500 ms apart only the last one's draft is dispatched, and no trigger has
\* more than one call, so a burst yields at most one network call.
C30_DraftDebounced ==
    /\ \A c \in DOMAIN draftCalls :
          LET k == draftCalls[c].trigger
          IN  /\ k \in DOMAIN draftTriggers
              /\ draftCalls[c].at >= draftTriggers[k].at + 500
              /\ \A j \in DOMAIN draftTriggers :
                    j > k => draftTriggers[j].at >= draftCalls[c].at
              /\ \A d \in DOMAIN draftCalls : draftCalls[d].trigger = k => d = c
    /\ \A k \in DOMAIN draftTriggers :
          (k + 1 \in DOMAIN draftTriggers
           /\ draftTriggers[k + 1].at - draftTriggers[k].at < 500)
          => \A c \in DOMAIN draftCalls : draftCalls[c].trigger # k

\* two triggers 400 ms apart, for two instances: one call, for the second
\* trigger, 500 ms after it
C30_Witness ==
    /\ Len(draftTriggers) = 2
    /\ draftTriggers[1].index # draftTriggers[2].index
    /\ draftTriggers[2].at - draftTriggers[1].at = 400
    /\ draftCalls = <<[trigger |-> 2, at |-> draftTriggers[2].at + 500]>>
    /\ armedTimers = {}

-----------------------------------------------------------------------------
(* Properties of the Remapper's generation gate and draft requests *)

\* generateDraft is called in this step: a request is sent to the API or,
\* without an API key, the call returns at once
DraftDispatched ==
    \/ dispatched' = dispatched + 1
    \/ /\ ~apiKey
       /\ runEffects
       /\ Dispatches(InstancePayload(payloadRegistry, confirmations))

\* the generationAllowed of the payload the instance computes, {} without one
ComputedGate ==
    LET payload == InstancePayload(payloadRegistry, confirmations)
    IN  IF payload = {} THEN {} ELSE Opt(Val(payload), "generationAllowed")

\* C31: no generative draft request is dispatched for the instance while its
\* effective gate (the node-level generationAllowed and the instance's
\* generationAllowed) is closed, and once the node-level gate is closed the
\* payload the instance computes has generationAllowed=false whatever the
\* instance's own setting.
C31_NoDispatchWhileGateClosed ==
    [][/\ DraftDispatched => (globalGenerationAllowed /\ localAllowed)
       /\ ~globalGenerationAllowed' => ComputedGate' \in {{}, {FALSE}}]_vars

\* the effects have run with the node-level gate closed and the instance's
\* own setting open, on a changed prompt, and sent nothing
C31_Witness ==
    /\ mounted /\ connected /\ apiKey
    /\ ~globalGenerationAllowed /\ localAllowed
    /\ renderedGlobalAllowed = globalGenerationAllowed
    /\ aiStrategy.method = "GENERATIVE"
    /\ aiStrategy.generativePrompt # lastPromptsRef
    /\ OptCur(Stored(payloadRegistry, nodeId, resultOut), "generationAllowed") = {FALSE}
    /\ dispatched = 0

\* the payload stored for the instance's slot, {} if none
SlotStored == Stored(payloadRegistry, nodeId, resultOut)

\* the instance is mounted and wired and its effective gate is closed
GateHeldClosed ==
    mounted /\ connected /\ ~(globalGenerationAllowed /\ localAllowed)

\* C32: if the gate of the slot is closed while a draft request for it is in
\* flight and stays closed (the instance staying mounted and wired), then in
\* whatever order the request completes and the effects register the
\* gate-closed payload, from some point on the slot holds a payload without
\* previewUrl and without isSynthesizing set.
C32_LateAssetDiscardedWhenGateClosed ==
    <>[]GateHeldClosed
    => <>[](/\ SlotStored # {}
            /\ SlotPreview = {}
            /\ ~SlotSynthesizing)

\* the gate was closed with a request in flight, the gate-closed payload is
\* registered and the request has then delivered its image
C32_Witness ==
    /\ GateHeldClosed
    /\ globalGenerationAllowed
    /\ inflight = {}
    /\ finished = "success"
    /\ landed.seq = 1
    /\ dispatched = 1
    /\ OptCur(SlotStored, "generationAllowed") = {FALSE}
    /\ OptCur(SlotStored, "generationId") # {}
    /\ SlotPreview = {}
    /\ ~SlotSynthesizing

\* C33: at most one generative draft request of the instance is in flight at
\* any time.
C33_OneDraftInFlight == Cardinality(inflight) <= 1

\* C36: whenever the stored payload of the slot has isConfirmed=true and a
\* previewUrl, that previewUrl is the URL passed to the most recent confirm
\* action of the instance.
C36_ConfirmedUrlIsTheOneConfirmed ==
    (TruthyBool(OptCur(SlotStored, "isConfirmed")) /\ SlotPreview # {})
    => SlotPreview = confirmedUrl

\* C39: after a draft request of the instance has finished without an image
\* (API error, missing API key, response without image), no further request
\* is sent for the instance as long as the prompt is the one of the last
\* dispatch.
C39_FailureNotRetried ==
    [][(/\ finished \in {"error", "noKey", "noImage"}
        /\ aiStrategy.generativePrompt = lastPromptsRef)
       => dispatched' = dispatched]_vars

\* C38: after unregisterNode(n) the payload registry has no entry for n until
\* the next registerPayload for n: once the Remapper is removed, which sends
\* no registerPayload any more, an updatePayload of a request that was in
\* flight (its asset or its failure reset) creates no entry for the node.
C38_NoEntryAfterUnregister == ~mounted => nodeId \notin DOMAIN payloadRegistry

-----------------------------------------------------------------------------
(* Properties of the resolved registry *)

\* the contexts the resolved registry holds
StoredContexts ==
    {resolvedRegistry[n][h] : n \in DOMAIN resolvedRegistry,
                              h \in {"source-out-0"}} 

\* generation is disallowed on the context or on its strategy
ContextDisallowed(c) ==
    \/ Opt(c, "generationAllowed") = {FALSE}
    \/ Has(c, "aiStrategy") /\ Opt(c.aiStrategy, "generationAllowed") = {FALSE}

ContextGeometric(c) == Has(c, "aiStrategy") /\ c.aiStrategy.method = "GEOMETRIC"

\* C34: a context of the resolved registry on which generation is disallowed
\* (generationAllowed=false on the context or on its aiStrategy) or whose
\* aiStrategy.method is GEOMETRIC has no previewUrl and, if it has an
\* aiStrategy, an empty generativePrompt.
C34_NoGhostInResolvedRegistry ==
    \A c \in StoredContexts :
        (ContextDisallowed(c) \/ ContextGeometric(c))
        => /\ Opt(c, "previewUrl") = {}
           /\ Has(c, "aiStrategy") => c.aiStrategy.generativePrompt = ""

\* the registry holds a context flushed for the flag on its strategy and a
\* context flushed for the GEOMETRIC method; both were handed in with a
\* previewUrl and a prompt
C34_Witness ==
    /\ "remapper" \in DOMAIN resolvedRegistry
    /\ "loader" \in DOMAIN resolvedRegistry
    /\ LET c == resolvedRegistry["remapper"]["source-out-0"]
           g == resolvedRegistry["loader"]["source-out-0"]
       IN  /\ Has(c, "aiStrategy")
           /\ c.aiStrategy.method = "HYBRID"
           /\ Opt(c.aiStrategy, "generationAllowed") = {FALSE}
           /\ Opt(c, "generationAllowed") = {FALSE}
           /\ c.aiStrategy.generativePrompt = ""
           /\ Opt(c, "previewUrl") = {}
           /\ ContextGeometric(g)
           /\ g.aiStrategy.generativePrompt = ""
           /\ Opt(g, "previewUrl") = {}

-----------------------------------------------------------------------------
(* Properties of the graph editor *)

\* the edges of eds that end at the target handle of the connection
EdgesInto(eds, params) ==
    SelectSeq(eds, LAMBDA edge :
        /\ edge.target = params.target
        /\ OrNull(edge.targetHandle) = OrNull(params.targetHandle))

\* the edges of eds that end elsewhere
EdgesElsewhere(eds, params) ==
    SelectSeq(eds, LAMBDA edge :
        \/ edge.target # params.target
        \/ OrNull(edge.targetHandle) # OrNull(params.targetHandle))

\* C35: after any sequence of onConnect calls from the initial graph no two
\* edges end at the same target node and target handle, except at the
\* assembly-input handle of the Export node; a connection to an occupied
\* target handle replaces the edge that was there, the other edges staying;
\* a connection the node-type rules reject leaves the edges as they were.
C35_OneEdgePerTargetHandle ==
    /\ \A i, j \in DOMAIN appEdges :
          (/\ i < j
           /\ appEdges[i].target = appEdges[j].target
           /\ OrNull(appEdges[i].targetHandle) = OrNull(appEdges[j].targetHandle))
          => /\ nodeType(appEdges[i].target) = {"exportPsd"}
             /\ appEdges[i].targetHandle = {"assembly-input"}
    /\ \A call \in connectCall :
          /\ call.rejected => appEdges = call.before
          /\ (~call.rejected /\ ~isMultiInput(call.params))
             => /\ Len(EdgesInto(appEdges, call.params)) = 1
                /\ EdgesInto(appEdges, call.params)[1].source = call.params.source
                /\ EdgesInto(appEdges, call.params)[1].sourceHandle
                      = call.params.sourceHandle
                /\ EdgesElsewhere(appEdges, call.params)
                      = EdgesElsewhere(call.before, call.params)

\* the Design Analyst's connection to target-in-0 of the Remapper has
\* replaced the Target Splitter's, two edges end at assembly-input, and a
\* rejected connection was tried in between
C35_Witness ==
    /\ \E i \in DOMAIN appEdges :
          /\ appEdges[i].target = "node-remapper-1"
          /\ appEdges[i].targetHandle = {"target-in-0"}
          /\ appEdges[i].source = "node-analyst-1"
    /\ \A call \in connectCall :
          /\ call.params.source = "node-analyst-1"
          /\ call.params.targetHandle = {"target-in-0"}
          /\ \E i \in DOMAIN call.before :
                /\ call.before[i].target = "node-remapper-1"
                /\ call.before[i].targetHandle = {"target-in-0"}
                /\ call.before[i].source = "node-5"
    /\ connectCall # {}
    /\ Len(EdgesInto(appEdges, [target |-> "node-export-1",
                                 targetHandle |-> {"assembly-input"}])) = 2

-----------------------------------------------------------------------------
(* Properties of the Design Analyst's registered contexts *)

\* the context registered for source-out-index, {} if none
AnalystContext(index) == Stored(resolvedRegistry, "analyst", sourceOut(index))

\* the strategy as registerResolved stores it: a GEOMETRIC one loses its prompt
StoredStrategy(json) ==
    IF json.method = "GEOMETRIC" THEN Set(json, "generativePrompt", {""}) ELSE json

\* C37: once a newer analysis has registered a context for source-out-i, the
\* completion of a draft generated for an older analysis of the slot does not
\* replace it: the aiStrategy of the slot is the one of the newest analysis,
\* and a previewUrl is stored only with that strategy.
C37_StaleDraftKeepsNewestContext ==
    \A index \in {0, 1} :
        (/\ layoutStrategy[index] # {}
         /\ AnalystContext(index) # {}
         /\ Has(Val(AnalystContext(index)), "aiStrategy"))
        => Drop(Val(AnalystContext(index)).aiStrategy, {"isExplicitIntent"})
              = StoredStrategy(Val(layoutStrategy[index]))

-----------------------------------------------------------------------------
(* Properties of the Container Resolver's registered contexts *)

\* C40: the resolved-registry entry of a channel follows the channel's
\* current resolution: once the register effect has run for the current
\* channels, a channel that resolves to no layer (no edge, data locked,
\* unknown container or missing design group) has no context registered
\* for source-<index>.
C40_RegistryFollowsResolution ==
    \A index \in {0, 1} :
        (/\ renderedChannels = {channels}
         /\ channels[index].resolvedContext = {})
        => Stored(resolvedRegistry, "resolver", sourceHandle(index)) = {}

=============================================================================
